---------------------------- MODULE Spec2Model ----------------------------
(***************************************************************************)
(* smtpd-filter-spamclass: the protocol state machine of filter.go.        *)
(*                                                                         *)
(* A Go string is modelled as a sequence of one-character strings, so that *)
(* strings.Split, strings.HasPrefix, strings.TrimSpace, strings.Cut, the   *)
(* slicing of lastAtom and the two address patterns are computed on the    *)
(* characters, as the code computes them.                                  *)
(***************************************************************************)
EXTENDS Integers, Sequences, FiniteSets, TLC

(***************************************************************************)
(* Characters                                                              *)
(***************************************************************************)
Bar == "|"
Lower == {"a","b","c","d","e","f","g","h","i","j","k","l","m","n","o","p","q","r","s","t","u","v","w","x","y","z"}
Upper == {"A","B","C","D","E","F","G","H","I","J","K","L","M","N","O","P","Q","R","S","T","U","V","W","X","Y","Z"}
Digit == {"0","1","2","3","4","5","6","7","8","9"}
Letter == Lower \cup Upper
\* unicode.IsSpace on the characters the inputs use
Space == {" ", "\t"}

DigitVal(c) ==
    CASE c = "0" -> 0 [] c = "1" -> 1 [] c = "2" -> 2 [] c = "3" -> 3 [] c = "4" -> 4
      [] c = "5" -> 5 [] c = "6" -> 6 [] c = "7" -> 7 [] c = "8" -> 8 [] c = "9" -> 9

(***************************************************************************)
(* Go's strings package, on sequences of characters                        *)
(***************************************************************************)
Drop(s, n) == SubSeq(s, n + 1, Len(s))
Take(s, n) == SubSeq(s, 1, n)

\* index of the first occurrence of character c in s, 0 when there is none
IndexOf(s, c) ==
    IF \E i \in 1..Len(s) : s[i] = c
    THEN CHOOSE i \in 1..Len(s) : s[i] = c /\ \A j \in 1..(i - 1) : s[j] # c
    ELSE 0

\* strings.Split(s, sep) for a one-character separator
RECURSIVE Split(_, _)
Split(s, sep) ==
    LET i == IndexOf(s, sep)
    IN  IF i = 0 THEN <<s>> ELSE <<Take(s, i - 1)>> \o Split(Drop(s, i), sep)

\* strings.HasPrefix
HasPrefix(s, p) == Len(s) >= Len(p) /\ Take(s, Len(p)) = p

\* strings.TrimSpace
RECURSIVE TrimLeft(_)
TrimLeft(s) == IF s # <<>> /\ s[1] \in Space THEN TrimLeft(Tail(s)) ELSE s
RECURSIVE TrimRight(_)
TrimRight(s) ==
    IF s # <<>> /\ s[Len(s)] \in Space THEN TrimRight(Take(s, Len(s) - 1)) ELSE s
TrimSpace(s) == TrimRight(TrimLeft(s))

\* strings.Cut(s, sep) for a one-character separator
Cut(s, sep) ==
    LET i == IndexOf(s, sep)
    IN  IF i = 0 THEN [before |-> s, after |-> <<>>, found |-> FALSE]
        ELSE [before |-> Take(s, i - 1), after |-> Drop(s, i), found |-> TRUE]

\* the fields joined with sep between them, as fmt.Sprintf("%s|%s|...") does
RECURSIVE Join(_, _)
Join(fields, sep) ==
    IF Len(fields) = 0 THEN <<>>
    ELSE IF Len(fields) = 1 THEN fields[1]
    ELSE fields[1] \o <<sep>> \o Join(Tail(fields), sep)

(***************************************************************************)
(* String constants of filter.go                                           *)
(***************************************************************************)
sRegisterReport == <<"r","e","g","i","s","t","e","r","|","r","e","p","o","r","t","|">>
sRegisterFilter == <<"r","e","g","i","s","t","e","r","|","f","i","l","t","e","r","|">>
sRegisterReady == <<"r","e","g","i","s","t","e","r","|","r","e","a","d","y">>
sFilterDataline == <<"f","i","l","t","e","r","-","d","a","t","a","l","i","n","e","|">>
sProtocol == <<"p","r","o","t","o","c","o","l">>
sSubsystem == <<"s","u","b","s","y","s","t","e","m">>
sReady == <<"r","e","a","d","y">>
sReport == <<"r","e","p","o","r","t">>
sFilter == <<"f","i","l","t","e","r">>
sLinkConnect == <<"l","i","n","k","-","c","o","n","n","e","c","t">>
sLinkDisconnect == <<"l","i","n","k","-","d","i","s","c","o","n","n","e","c","t">>
sLinkAuth == <<"l","i","n","k","-","a","u","t","h">>
sTxReset == <<"t","x","-","r","e","s","e","t">>
sTxBegin == <<"t","x","-","b","e","g","i","n">>
sTxMail == <<"t","x","-","m","a","i","l">>
sTxRcpt == <<"t","x","-","r","c","p","t">>
sTxData == <<"t","x","-","d","a","t","a">>
sTxCommit == <<"t","x","-","c","o","m","m","i","t">>
sTxRollback == <<"t","x","-","r","o","l","l","b","a","c","k">>
sDataLine == <<"d","a","t","a","-","l","i","n","e">>
sPass == <<"p","a","s","s">>
sOk == <<"o","k">>
sSpam == <<"s","p","a","m">>
sInit == <<"i","n","i","t">>
sData == <<"d","a","t","a">>
sCommit == <<"c","o","m","m","i","t">>
sRollback == <<"r","o","l","l","b","a","c","k">>
sXSpamScore == <<"X","-","S","p","a","m","-","S","c","o","r","e",":"," ">>
sXSpam == <<"X","-","S","p","a","m",":"," ">>
sXSpamClass == <<"X","-","S","p","a","m","-","C","l","a","s","s",":"," ">>
sTo == <<"T","o",":"," ">>
sFrom == <<"F","r","o","m",":"," ">>
sYes == <<"y","e","s">>
sNo == <<"n","o">>

FID_NAME == 4
FID_SID == 5
FID_TOKEN == 6

\* Filter.reports and Filter.filters, as NewFilter sets them
reports ==
    << sLinkConnect, sLinkDisconnect, sLinkAuth, sTxReset, sTxBegin,
       sTxMail, sTxRcpt, sTxData, sTxCommit, sTxRollback >>
filters == << sDataLine >>

(***************************************************************************)
(* The address parser                                                      *)
(***************************************************************************)
LocalChar == Letter \cup Digit \cup {".", "_", "%", "+", "-"}
DomainChar == Letter \cup Digit \cup {".", "-"}

AllIn(s, lo, hi, set) == \A k \in lo..hi : s[k] \in set

\* EMAIL_ADDRESS_PATTERN: ^[a-zA-Z0-9._%+-]+@[a-zA-Z0-9.-]+\.[a-zA-Z]{2,}$
EMAIL_ADDRESS_PATTERN(s) ==
    \E i \in 2..Len(s) :
        /\ s[i] = "@"
        /\ AllIn(s, 1, i - 1, LocalChar)
        /\ \E j \in (i + 2)..(Len(s) - 2) :
              /\ s[j] = "."
              /\ AllIn(s, i + 1, j - 1, DomainChar)
              /\ AllIn(s, j + 1, Len(s), Letter)

\* EMAIL_ADDRESS_BRACKET_PATTERN: ^.*<(EMAIL_ADDRESS_PATTERN)>.*$
\* the places of "<" at which the pattern matches
BracketStarts(s) ==
    { a \in 1..Len(s) :
        /\ s[a] = "<"
        /\ \E b \in (a + 1)..Len(s) :
              s[b] = ">" /\ EMAIL_ADDRESS_PATTERN(SubSeq(s, a + 1, b - 1)) }

\* FindStringSubmatch: the leading .* is greedy, so the group is the one
\* opened by the last "<" at which the pattern matches; it ends at the
\* first ">" behind it, since the group holds no ">"
BracketGroup(s) ==
    LET a == CHOOSE x \in BracketStarts(s) : \A y \in BracketStarts(s) : y <= x
        rest == Drop(s, a)
    IN  Take(rest, IndexOf(rest, ">") - 1)

parseEmailAddress(address) ==
    LET trimmed == TrimSpace(address)
        parsed == IF BracketStarts(trimmed) # {} THEN BracketGroup(trimmed) ELSE trimmed
    IN  IF ~EMAIL_ADDRESS_PATTERN(parsed)
        THEN [address |-> <<>>, ok |-> FALSE]
        ELSE [address |-> parsed, ok |-> TRUE]

(***************************************************************************)
(* The spam score                                                          *)
(***************************************************************************)
RECURSIVE DigitsVal(_)
DigitsVal(s) == IF s = <<>> THEN 0 ELSE 10 * DigitsVal(Take(s, Len(s) - 1)) + DigitVal(s[Len(s)])

\* strconv.ParseFloat on plain decimal numerals [+-]digits[.digits]; the
\* value is kept in thousandths.  Every other token the inputs use is one
\* ParseFloat rejects.
ParseFloat(s) ==
    LET signed == s # <<>> /\ s[1] \in {"+", "-"}
        body == IF signed THEN Tail(s) ELSE s
        c == Cut(body, ".")
        frac == Take(c.after \o <<"0", "0", "0">>, 3)
        wellFormed ==
            /\ AllIn(c.before, 1, Len(c.before), Digit)
            /\ AllIn(c.after, 1, Len(c.after), Digit)
            /\ Len(c.before) + Len(c.after) > 0
        magnitude == 1000 * DigitsVal(c.before) + DigitsVal(frac)
    IN  IF ~wellFormed THEN [val |-> 0, ok |-> FALSE]
        ELSE [val |-> IF signed /\ s[1] = "-" THEN 0 - magnitude ELSE magnitude,
              ok |-> TRUE]

\* parseSpamScore: the second space-separated field of the line; a missing
\* field and a ParseFloat error are both log.Fatal
parseSpamScore(line) ==
    LET fields == Split(line, " ")
    IN  IF Len(fields) < 2 THEN [val |-> 0, ok |-> FALSE] ELSE ParseFloat(fields[2])

(***************************************************************************)
(* Records                                                                 *)
(***************************************************************************)
NewMessage(mid) ==
    [ Id |-> mid, From |-> <<>>, To |-> <<>>, EnvelopeTo |-> <<>>,
      EnvelopeFrom |-> <<>>, State |-> sInit, InHeader |-> TRUE,
      SpamScore |-> 0, SpamScoreSet |-> FALSE ]

\* a Go map is a function on the keys it holds; make(map[...]) is the empty one
EmptyMap == [x \in {} |-> x]

NewSession(sid, rdns, confirmed, remote, local) ==
    [ Id |-> sid, RDNS |-> rdns, Confirmed |-> confirmed, Remote |-> remote,
      Local |-> local, AuthorizedUser |-> <<>>, DataMessage |-> <<>>,
      Messages |-> EmptyMap ]

\* m[k] = v for a map m, as the Go assignment m[k] = v
MapSet(m, k, v) == [x \in DOMAIN m \cup {k} |-> IF x = k THEN v ELSE m[x]]
\* delete(m, k)
MapDelete(m, k) == [x \in DOMAIN m \ {k} |-> m[x]]

\* lastAtom: the line from the byte behind the first `field` atoms, each
\* followed by its delimiter
RECURSIVE AtomsWidth(_, _)
AtomsWidth(atoms, field) ==
    IF field = 0 THEN 0 ELSE AtomsWidth(atoms, field - 1) + Len(atoms[field]) + 1
\* variant: the atom at index `field' alone
lastAtom_OneAtom(line, atoms, field) == atoms[field + 1]
lastAtom(line, atoms, field) == Drop(line, AtomsWidth(atoms, field))

(***************************************************************************)
(* The data-line filter                                                    *)
(***************************************************************************)
\* variant: the boundary does not ask for an envelope-to address
MissingSignal_NoEnvelope(message) ==
    \/ ~message.SpamScoreSet
    \/ Len(message.To) < 1

\* the boundary's three early returns: the score, a To address or an
\* envelope-to address is missing
MissingSignal(message) ==
    \/ ~message.SpamScoreSet
    \/ Len(message.To) < 1
    \/ Len(message.EnvelopeTo) < 1

\* variant: the boundary classifies the first envelope-to address
ClassAddress_Envelope(message) ==
    LET to == Cut(message.EnvelopeTo[1], "@")
    IN  Cut(to.before, "+").before \o <<"@">> \o to.after

\* the address the boundary hands to GetClass: the first To address, its
\* local part cut at a plus-alias
ClassAddress(message) ==
    LET to == Cut(message.To[1], "@")
    IN  Cut(to.before, "+").before \o <<"@">> \o to.after

\* variant: the X-Spam header is written only with a class header, behind it
InjectHeaders_ClassFirst(label, line) ==
    IF label # <<>>
    THEN << sXSpamClass \o label, sXSpam \o (IF label = sSpam THEN sYes ELSE sNo), line >>
    ELSE << line >>

\* variant: the boundary writes no X-Spam header
InjectHeaders_NoXSpam(label, line) ==
    IF label # <<>> THEN << sXSpamClass \o label, line >> ELSE << line >>

\* the lines the boundary returns for the class `label' and the blank `line':
\* the class header is prepended first, then the X-Spam header before it
InjectHeaders(label, line) ==
    LET withClass == IF label # <<>> THEN << sXSpamClass \o label, line >> ELSE << line >>
        spamState == IF label = sSpam THEN sYes ELSE sNo
    IN  << sXSpam \o spamState >> \o withClass

\* variant: no header is removed
Dropped_Never(line) == FALSE

\* variant: only a prior X-Spam-Class header is removed
Dropped_ClassOnly(line) == HasPrefix(line, sXSpamClass)

\* the two cases that return no line: a prior X-Spam or X-Spam-Class header
Dropped(line) == HasPrefix(line, sXSpam) \/ HasPrefix(line, sXSpamClass)

\* filterDataLine on `message' and `line', with `label' the string that
\* Classes.GetClass returns if it is called.  The result holds the lines to
\* write, the message as the call leaves it, whether the call ended in
\* log.Fatal, and the GetClass call with what it returned (<<>> if none was
\* made).
filterDataLine(message, line, label) ==
    LET pass == [output |-> <<line>>, message |-> message, fatal |-> FALSE, call |-> <<>>]
        drop == [pass EXCEPT !.output = <<>>]
    IN  IF HasPrefix(line, sXSpamScore) THEN
            LET score == parseSpamScore(line)
            IN  IF ~score.ok THEN [pass EXCEPT !.output = <<>>, !.fatal = TRUE]
                ELSE [pass EXCEPT !.message =
                        [message EXCEPT !.SpamScore = score.val, !.SpamScoreSet = TRUE]]
        ELSE IF Dropped(line) THEN drop
        ELSE IF HasPrefix(line, sTo) THEN
            LET parsed == parseEmailAddress(Cut(line, " ").after)
            IN  IF ~parsed.ok THEN pass
                ELSE [pass EXCEPT !.message =
                        [message EXCEPT !.To = Append(message.To, parsed.address)]]
        ELSE IF HasPrefix(line, sFrom) THEN
            LET parsed == parseEmailAddress(Cut(line, " ").after)
            IN  IF ~parsed.ok THEN pass
                ELSE [pass EXCEPT !.message =
                        [message EXCEPT !.From = Append(message.From, parsed.address)]]
        ELSE IF TrimSpace(line) = <<>> THEN
            IF MissingSignal(message) THEN pass
            ELSE IF ~Cut(message.To[1], "@").found THEN pass
            ELSE [pass EXCEPT
                    !.output = InjectHeaders(label, line),
                    !.call = [address |-> ClassAddress(message),
                              score |-> message.SpamScore,
                              label |-> label]]
        ELSE pass

(***************************************************************************)
(* Bounds and inputs                                                       *)
(***************************************************************************)
\* lines read by the main loop in one run
MaxEvents == 4
\* lines read by the main loop in one run of the data-phase specification
MaxDataEvents == 8
\* lines read by the main loop in one run of the one-message specification
MaxMessageEvents == 9
\* lines read by the main loop in one run of the two-session specification
MaxPairEvents == 9
\* lines of the output stream that `output' records (the stream's head)
MaxOutput == 14

s1 == <<"s","1">>
s2 == <<"s","2">>
m1 == <<"m","1">>
m2 == <<"m","2">>
k1 == <<"k","1">>
sFail == <<"f","a","i","l">>
aFrom == <<"<","f","@","e",".","o","r","g",">">>
aRcpt == <<"v","@","e",".","o","r","g">>
aBad == <<"b","a","d">>


\* the labels Classes.GetClass may return
ClassLabels == { <<>>, sSpam, <<"h","a","m">> }

Report(event, sid, args) ==
    Join(<<sReport, <<"0",".","7">>, <<"0">>, <<"s","m","t","p","-","i","n">>, event, sid>> \o args, Bar)
FilterEvent(phase, sid, token, content) ==
    Join(<<sFilter, <<"0",".","7">>, <<"0">>, <<"s","m","t","p","-","i","n">>, phase, sid, token>>, Bar) \o <<Bar>> \o content

\* the handshake lines of SpecData
DataConfigLines ==
    { <<"c","o","n","f","i","g","|","s","u","b","s","y","s","t","e","m","|","s","m","t","p","-","i","n">>,
      <<"c","o","n","f","i","g","|","r","e","a","d","y">> }

\* the handshake lines of Spec
ConfigLines ==
    { <<"c","o","n","f","i","g","|","s","m","t","p","d","-","v","e","r","s","i","o","n","|","7",".","7",".","0">>,
      <<"c","o","n","f","i","g","|","p","r","o","t","o","c","o","l","|","0",".","7">>,
      <<"c","o","n","f","i","g","|","s","u","b","s","y","s","t","e","m","|","s","m","t","p","-","i","n">>,
      <<"c","o","n","f","i","g","|","s","u","b","s","y","s","t","e","m","|","s","m","t","p","-","o","u","t">>,
      <<"c","o","n","f","i","g","|","s","u","b","s","y","s","t","e","m">>,
      <<"c","o","n","f","i","g">>,
      <<"c","o","n","f","i","g","|","r","e","a","d","y">> }

\* lines no handler takes
OddLines ==
    { <<"r","e","p","o","r","t","|","0",".","7","|","0">>,
      <<"h","e","l","l","o","|","0",".","7","|","0","|","s","m","t","p","-","i","n","|","l","i","n","k","-","c","o","n","n","e","c","t","|","s","1">>,
      Report(<<"l","i","n","k","-","i","d","e","n","t","i","f","y">>, s1, <<>>),
      FilterEvent(<<"c","o","m","m","i","t">>, s1, k1, <<>>),
      Report(sLinkConnect, s1, <<<<"h",".","e",".","o","r","g">>>>),
      Report(sTxBegin, s1, <<>>),
      Join(<<sFilter, <<"0",".","7">>, <<"0">>, <<"s","m","t","p","-","i","n">>, sDataLine, s1, k1>>, Bar) }

EventLines(sids, mids, results, mailAddrs, rcptAddrs, contents) ==
    { Report(sLinkConnect, sid, <<<<"h",".","e",".","o","r","g">>, sPass, <<"1",".","2",".","3",".","4",":","5">>, <<"5",".","6",".","7",".","8",":","2","5">>>>) : sid \in sids }
    \cup { Report(sLinkDisconnect, sid, <<>>) : sid \in sids }
    \cup { Report(sLinkAuth, sid, <<r, <<"u","s","r">>>>) : sid \in sids, r \in {sPass, sFail} }
    \cup { Report(sTxReset, sid, <<mid>>) : sid \in sids, mid \in mids }
    \cup { Report(sTxBegin, sid, <<mid>>) : sid \in sids, mid \in mids }
    \cup { Report(sTxMail, x[1], <<x[2], x[3], x[4]>>) :
             x \in sids \X mids \X results \X mailAddrs }
    \cup { Report(sTxRcpt, x[1], <<x[2], x[3], x[4]>>) :
             x \in sids \X mids \X results \X rcptAddrs }
    \cup { Report(sTxData, sid[1], <<sid[2], sid[3]>>) : sid \in sids \X mids \X results }
    \cup { Report(sTxCommit, sid, <<mid, <<"9","9">>>>) : sid \in sids, mid \in mids }
    \cup { Report(sTxRollback, sid, <<mid>>) : sid \in sids, mid \in mids }
    \cup { FilterEvent(sDataLine, sid, k1, c) : sid \in sids, c \in contents }

\* the message lines of Spec
Contents ==
    {
      <<"X","-","S","p","a","m","-","S","c","o","r","e",":"," ","1",".","5"," ","/"," ","1","0","0">>,   \* X-Spam-Score: 1.5 / 100
      <<"T","o",":"," ","u","+","t","@","e",".","o","r","g">>,   \* To: u+t@e.org
      <<>>,   \* the blank line
      <<"a","|","b","|","|","c">> }   \* a|b||c

\* the message lines of SpecData: one of every kind the filter tells apart
DataContents ==
    {
      <<"X","-","S","p","a","m","-","S","c","o","r","e",":"," ","1",".","5"," ","/"," ","1","0","0">>,   \* X-Spam-Score: 1.5 / 100
      <<"X","-","S","p","a","m","-","S","c","o","r","e",":"," ","h","i","g","h">>,   \* X-Spam-Score: high
      <<"X","-","S","p","a","m",":"," ","y","e","s">>,   \* X-Spam: yes
      <<"X","-","S","p","a","m","-","C","l","a","s","s",":"," ","o","l","d">>,   \* X-Spam-Class: old
      <<"T","o",":"," ","u","+","t","@","e",".","o","r","g">>,   \* To: u+t@e.org
      <<"T","o",":"," ","V"," ","<","v","@","e",".","o","r","g",">">>,   \* To: V <v@e.org>
      <<"T","o",":"," ","n","o","b","o","d","y">>,   \* To: nobody
      <<"F","r","o","m",":"," ","f","@","e",".","o","r","g">>,   \* From: f@e.org
      <<>>,   \* the blank line
      <<" ">>,   \* a line of one space
      <<"a","|","b","|","|","c">>,   \* a|b||c
      <<".">> }   \* .

\* the main-loop lines of Spec: two sessions with two messages each, and a
\* tx-begin whose message identifier is the empty string
Lines ==
    EventLines({s1, s2}, {m1, m2}, {sOk, sFail}, {aFrom, aBad}, {aRcpt, aBad}, Contents)
    \cup OddLines
    \cup { Report(sTxBegin, s1, << <<>> >>) }

\* the main-loop lines of SpecData: one session with one message
DataLines ==
    EventLines({s1}, {m1}, {sOk, sFail}, {aFrom}, {aRcpt, aBad}, DataContents)
    \cup { <<"r","e","p","o","r","t","|","0",".","7","|","0">>,
           Report(<<"l","i","n","k","-","i","d","e","n","t","i","f","y">>, s1, <<>>) }

\* the main-loop lines of SpecMessage: the events of one message of one
\* session that stays connected, every result ok
MessageLines ==
    EventLines({s1}, {m1}, {sOk}, {aFrom}, {aRcpt}, Contents)
    \ { Report(sLinkDisconnect, s1, <<>>) }

\* the main-loop lines of SpecPair: two sessions that use the same message
\* identifier, every result ok
PairLines ==
    EventLines({s1, s2}, {m1}, {sOk}, {aFrom}, {aRcpt}, Contents)

\* the handshake lines of the test
initLines ==
    <<
      \* config|smtpd-version|7.7.0
      <<"c","o","n","f","i","g","|","s","m","t","p","d","-","v","e","r","s","i","o","n","|","7",".","7",".","0">>,
      \* config|protocol|0.7
      <<"c","o","n","f","i","g","|","p","r","o","t","o","c","o","l","|","0",".","7">>,
      \* config|smtp-session-timeout|300
      <<"c","o","n","f","i","g","|","s","m","t","p","-","s","e","s","s","i","o","n","-","t","i","m","e","o","u","t","|","3","0","0">>,
      \* config|subsystem|smtp-in
      <<"c","o","n","f","i","g","|","s","u","b","s","y","s","t","e","m","|","s","m","t","p","-","i","n">>,
      \* config|ready
      <<"c","o","n","f","i","g","|","r","e","a","d","y">>
    >>

\* the lines the test sends to the main loop, in its order
messageLines ==
    <<
      \* report|0.7|0000000000.000000|smtp-in|link-connect|deadbeef|sendhost.example.org|pass|1.2.3.4:11223|5.6.7.8:25
      <<"r","e","p","o","r","t","|","0",".","7","|","0","0","0","0","0","0","0","0","0","0",".","0","0","0","0","0","0","|","s","m","t","p","-","i","n","|","l","i","n","k","-","c","o","n","n","e","c","t","|","d","e","a","d","b","e","e","f","|","s","e","n","d","h","o","s","t",".","e","x","a","m","p","l","e",".","o","r","g","|","p","a","s","s","|","1",".","2",".","3",".","4",":","1","1","2","2","3","|","5",".","6",".","7",".","8",":","2","5">>,
      \* report|0.7|0000000000.000000|smtp-in|link-auth|deadbeef|pass|authuser
      <<"r","e","p","o","r","t","|","0",".","7","|","0","0","0","0","0","0","0","0","0","0",".","0","0","0","0","0","0","|","s","m","t","p","-","i","n","|","l","i","n","k","-","a","u","t","h","|","d","e","a","d","b","e","e","f","|","p","a","s","s","|","a","u","t","h","u","s","e","r">>,
      \* report|0.7|0000000000.000000|smtp-in|tx-begin|deadbeef|cafebabe
      <<"r","e","p","o","r","t","|","0",".","7","|","0","0","0","0","0","0","0","0","0","0",".","0","0","0","0","0","0","|","s","m","t","p","-","i","n","|","t","x","-","b","e","g","i","n","|","d","e","a","d","b","e","e","f","|","c","a","f","e","b","a","b","e">>,
      \* report|0.7|0000000000.000000|smtp-in|tx-mail|deadbeef|cafebabe|ok|fromuser@example.org
      <<"r","e","p","o","r","t","|","0",".","7","|","0","0","0","0","0","0","0","0","0","0",".","0","0","0","0","0","0","|","s","m","t","p","-","i","n","|","t","x","-","m","a","i","l","|","d","e","a","d","b","e","e","f","|","c","a","f","e","b","a","b","e","|","o","k","|","f","r","o","m","u","s","e","r","@","e","x","a","m","p","l","e",".","o","r","g">>,
      \* report|0.7|0000000000.000000|smtp-in|tx-rcpt|deadbeef|cafebabe|ok|touser@localdomain.ext
      <<"r","e","p","o","r","t","|","0",".","7","|","0","0","0","0","0","0","0","0","0","0",".","0","0","0","0","0","0","|","s","m","t","p","-","i","n","|","t","x","-","r","c","p","t","|","d","e","a","d","b","e","e","f","|","c","a","f","e","b","a","b","e","|","o","k","|","t","o","u","s","e","r","@","l","o","c","a","l","d","o","m","a","i","n",".","e","x","t">>,
      \* report|0.7|0000000000.000000|smtp-in|tx-data|deadbeef|cafebabe|ok
      <<"r","e","p","o","r","t","|","0",".","7","|","0","0","0","0","0","0","0","0","0","0",".","0","0","0","0","0","0","|","s","m","t","p","-","i","n","|","t","x","-","d","a","t","a","|","d","e","a","d","b","e","e","f","|","c","a","f","e","b","a","b","e","|","o","k">>,
      \* filter|0.7|0000000000.000000|smtp-in|data-line|deadbeef|baadf00d|Received: from localhost
      <<"f","i","l","t","e","r","|","0",".","7","|","0","0","0","0","0","0","0","0","0","0",".","0","0","0","0","0","0","|","s","m","t","p","-","i","n","|","d","a","t","a","-","l","i","n","e","|","d","e","a","d","b","e","e","f","|","b","a","a","d","f","0","0","d","|","R","e","c","e","i","v","e","d",":"," ","f","r","o","m"," ","l","o","c","a","l","h","o","s","t">>,
      \* filter|0.7|0000000000.000000|smtp-in|data-line|deadbeef|baadf00d|    by mailbox.rstms.net with LMTP
      <<"f","i","l","t","e","r","|","0",".","7","|","0","0","0","0","0","0","0","0","0","0",".","0","0","0","0","0","0","|","s","m","t","p","-","i","n","|","d","a","t","a","-","l","i","n","e","|","d","e","a","d","b","e","e","f","|","b","a","a","d","f","0","0","d","|"," "," "," "," ","b","y"," ","m","a","i","l","b","o","x",".","r","s","t","m","s",".","n","e","t"," ","w","i","t","h"," ","L","M","T","P">>,
      \* filter|0.7|0000000000.000000|smtp-in|data-line|deadbeef|baadf00d|    id SYMsDtUVXGkCNQAA8o/S4
      <<"f","i","l","t","e","r","|","0",".","7","|","0","0","0","0","0","0","0","0","0","0",".","0","0","0","0","0","0","|","s","m","t","p","-","i","n","|","d","a","t","a","-","l","i","n","e","|","d","e","a","d","b","e","e","f","|","b","a","a","d","f","0","0","d","|"," "," "," "," ","i","d"," ","S","Y","M","s","D","t","U","V","X","G","k","C","N","Q","A","A","8","o","/","S","4">>,
      \* filter|0.7|0000000000.000000|smtp-in|data-line|deadbeef|baadf00d|    (envelope-from <bounce+403268.63af5d-rumble=rstms.net@mg-d0.substack.com>)
      <<"f","i","l","t","e","r","|","0",".","7","|","0","0","0","0","0","0","0","0","0","0",".","0","0","0","0","0","0","|","s","m","t","p","-","i","n","|","d","a","t","a","-","l","i","n","e","|","d","e","a","d","b","e","e","f","|","b","a","a","d","f","0","0","d","|"," "," "," "," ","(","e","n","v","e","l","o","p","e","-","f","r","o","m"," ","<","b","o","u","n","c","e","+","4","0","3","2","6","8",".","6","3","a","f","5","d","-","r","u","m","b","l","e","=","r","s","t","m","s",".","n","e","t","@","m","g","-","d","0",".","s","u","b","s","t","a","c","k",".","c","o","m",">",")">>,
      \* filter|0.7|0000000000.000000|smtp-in|data-line|deadbeef|baadf00d|    for <mkrueger>; Mon, 05 Jan 2026 12:49:41 -0700
      <<"f","i","l","t","e","r","|","0",".","7","|","0","0","0","0","0","0","0","0","0","0",".","0","0","0","0","0","0","|","s","m","t","p","-","i","n","|","d","a","t","a","-","l","i","n","e","|","d","e","a","d","b","e","e","f","|","b","a","a","d","f","0","0","d","|"," "," "," "," ","f","o","r"," ","<","m","k","r","u","e","g","e","r",">",";"," ","M","o","n",","," ","0","5"," ","J","a","n"," ","2","0","2","6"," ","1","2",":","4","9",":","4","1"," ","-","0","7","0","0">>,
      \* filter|0.7|0000000000.000000|smtp-in|data-line|deadbeef|baadf00d|X-Spam: no
      <<"f","i","l","t","e","r","|","0",".","7","|","0","0","0","0","0","0","0","0","0","0",".","0","0","0","0","0","0","|","s","m","t","p","-","i","n","|","d","a","t","a","-","l","i","n","e","|","d","e","a","d","b","e","e","f","|","b","a","a","d","f","0","0","d","|","X","-","S","p","a","m",":"," ","n","o">>,
      \* filter|0.7|0000000000.000000|smtp-in|data-line|deadbeef|baadf00d|X-Spam-Score: 1.155 / 100
      <<"f","i","l","t","e","r","|","0",".","7","|","0","0","0","0","0","0","0","0","0","0",".","0","0","0","0","0","0","|","s","m","t","p","-","i","n","|","d","a","t","a","-","l","i","n","e","|","d","e","a","d","b","e","e","f","|","b","a","a","d","f","0","0","d","|","X","-","S","p","a","m","-","S","c","o","r","e",":"," ","1",".","1","5","5"," ","/"," ","1","0","0">>,
      \* filter|0.7|0000000000.000000|smtp-in|data-line|deadbeef|baadf00d|X-Spam-Class: original
      <<"f","i","l","t","e","r","|","0",".","7","|","0","0","0","0","0","0","0","0","0","0",".","0","0","0","0","0","0","|","s","m","t","p","-","i","n","|","d","a","t","a","-","l","i","n","e","|","d","e","a","d","b","e","e","f","|","b","a","a","d","f","0","0","d","|","X","-","S","p","a","m","-","C","l","a","s","s",":"," ","o","r","i","g","i","n","a","l">>,
      \* filter|0.7|0000000000.000000|smtp-in|data-line|deadbeef|baadf00d|X-Spam-Status: Yes, score=1.155 required=100.000
      <<"f","i","l","t","e","r","|","0",".","7","|","0","0","0","0","0","0","0","0","0","0",".","0","0","0","0","0","0","|","s","m","t","p","-","i","n","|","d","a","t","a","-","l","i","n","e","|","d","e","a","d","b","e","e","f","|","b","a","a","d","f","0","0","d","|","X","-","S","p","a","m","-","S","t","a","t","u","s",":"," ","Y","e","s",","," ","s","c","o","r","e","=","1",".","1","5","5"," ","r","e","q","u","i","r","e","d","=","1","0","0",".","0","0","0">>,
      \* filter|0.7|0000000000.000000|smtp-in|data-line|deadbeef|baadf00d|    tests=[ARC_NA=0.000, ASN=0.000, DKIM_TRACE=0.000
      <<"f","i","l","t","e","r","|","0",".","7","|","0","0","0","0","0","0","0","0","0","0",".","0","0","0","0","0","0","|","s","m","t","p","-","i","n","|","d","a","t","a","-","l","i","n","e","|","d","e","a","d","b","e","e","f","|","b","a","a","d","f","0","0","d","|"," "," "," "," ","t","e","s","t","s","=","[","A","R","C","_","N","A","=","0",".","0","0","0",","," ","A","S","N","=","0",".","0","0","0",","," ","D","K","I","M","_","T","R","A","C","E","=","0",".","0","0","0">>,
      \* filter|0.7|0000000000.000000|smtp-in|data-line|deadbeef|baadf00d|    DMARC_POLICY_ALLOW=00.500,
      <<"f","i","l","t","e","r","|","0",".","7","|","0","0","0","0","0","0","0","0","0","0",".","0","0","0","0","0","0","|","s","m","t","p","-","i","n","|","d","a","t","a","-","l","i","n","e","|","d","e","a","d","b","e","e","f","|","b","a","a","d","f","0","0","d","|"," "," "," "," ","D","M","A","R","C","_","P","O","L","I","C","Y","_","A","L","L","O","W","=","0","0",".","5","0","0",",">>,
      \* filter|0.7|0000000000.000000|smtp-in|data-line|deadbeef|baadf00d|    ZERO_FONT=0.300]
      <<"f","i","l","t","e","r","|","0",".","7","|","0","0","0","0","0","0","0","0","0","0",".","0","0","0","0","0","0","|","s","m","t","p","-","i","n","|","d","a","t","a","-","l","i","n","e","|","d","e","a","d","b","e","e","f","|","b","a","a","d","f","0","0","d","|"," "," "," "," ","Z","E","R","O","_","F","O","N","T","=","0",".","3","0","0","]">>,
      \* filter|0.7|0000000000.000000|smtp-in|data-line|deadbeef|baadf00d|To: touser@localdomain.ext
      <<"f","i","l","t","e","r","|","0",".","7","|","0","0","0","0","0","0","0","0","0","0",".","0","0","0","0","0","0","|","s","m","t","p","-","i","n","|","d","a","t","a","-","l","i","n","e","|","d","e","a","d","b","e","e","f","|","b","a","a","d","f","0","0","d","|","T","o",":"," ","t","o","u","s","e","r","@","l","o","c","a","l","d","o","m","a","i","n",".","e","x","t">>,
      \* filter|0.7|0000000000.000000|smtp-in|data-line|deadbeef|baadf00d|From: fromuser@example.org
      <<"f","i","l","t","e","r","|","0",".","7","|","0","0","0","0","0","0","0","0","0","0",".","0","0","0","0","0","0","|","s","m","t","p","-","i","n","|","d","a","t","a","-","l","i","n","e","|","d","e","a","d","b","e","e","f","|","b","a","a","d","f","0","0","d","|","F","r","o","m",":"," ","f","r","o","m","u","s","e","r","@","e","x","a","m","p","l","e",".","o","r","g">>,
      \* filter|0.7|0000000000.000000|smtp-in|data-line|deadbeef|baadf00d|Subject: filter test message
      <<"f","i","l","t","e","r","|","0",".","7","|","0","0","0","0","0","0","0","0","0","0",".","0","0","0","0","0","0","|","s","m","t","p","-","i","n","|","d","a","t","a","-","l","i","n","e","|","d","e","a","d","b","e","e","f","|","b","a","a","d","f","0","0","d","|","S","u","b","j","e","c","t",":"," ","f","i","l","t","e","r"," ","t","e","s","t"," ","m","e","s","s","a","g","e">>,
      \* filter|0.7|0000000000.000000|smtp-in|data-line|deadbeef|baadf00d|
      <<"f","i","l","t","e","r","|","0",".","7","|","0","0","0","0","0","0","0","0","0","0",".","0","0","0","0","0","0","|","s","m","t","p","-","i","n","|","d","a","t","a","-","l","i","n","e","|","d","e","a","d","b","e","e","f","|","b","a","a","d","f","0","0","d","|">>,
      \* filter|0.7|0000000000.000000|smtp-in|data-line|deadbeef|baadf00d|first message body line
      <<"f","i","l","t","e","r","|","0",".","7","|","0","0","0","0","0","0","0","0","0","0",".","0","0","0","0","0","0","|","s","m","t","p","-","i","n","|","d","a","t","a","-","l","i","n","e","|","d","e","a","d","b","e","e","f","|","b","a","a","d","f","0","0","d","|","f","i","r","s","t"," ","m","e","s","s","a","g","e"," ","b","o","d","y"," ","l","i","n","e">>,
      \* filter|0.7|0000000000.000000|smtp-in|data-line|deadbeef|baadf00d|second message body line with embedded | character
      <<"f","i","l","t","e","r","|","0",".","7","|","0","0","0","0","0","0","0","0","0","0",".","0","0","0","0","0","0","|","s","m","t","p","-","i","n","|","d","a","t","a","-","l","i","n","e","|","d","e","a","d","b","e","e","f","|","b","a","a","d","f","0","0","d","|","s","e","c","o","n","d"," ","m","e","s","s","a","g","e"," ","b","o","d","y"," ","l","i","n","e"," ","w","i","t","h"," ","e","m","b","e","d","d","e","d"," ","|"," ","c","h","a","r","a","c","t","e","r">>,
      \* filter|0.7|0000000000.000000|smtp-in|data-line|deadbeef|baadf00d|third and last message body line
      <<"f","i","l","t","e","r","|","0",".","7","|","0","0","0","0","0","0","0","0","0","0",".","0","0","0","0","0","0","|","s","m","t","p","-","i","n","|","d","a","t","a","-","l","i","n","e","|","d","e","a","d","b","e","e","f","|","b","a","a","d","f","0","0","d","|","t","h","i","r","d"," ","a","n","d"," ","l","a","s","t"," ","m","e","s","s","a","g","e"," ","b","o","d","y"," ","l","i","n","e">>,
      \* filter|0.7|0000000000.000000|smtp-in|data-line|deadbeef|baadf00d|.
      <<"f","i","l","t","e","r","|","0",".","7","|","0","0","0","0","0","0","0","0","0","0",".","0","0","0","0","0","0","|","s","m","t","p","-","i","n","|","d","a","t","a","-","l","i","n","e","|","d","e","a","d","b","e","e","f","|","b","a","a","d","f","0","0","d","|",".">>,
      \* report|0.7|0000000000.000000|smtp-in|tx-commit|deadbeef|cafebabe|1234
      <<"r","e","p","o","r","t","|","0",".","7","|","0","0","0","0","0","0","0","0","0","0",".","0","0","0","0","0","0","|","s","m","t","p","-","i","n","|","t","x","-","c","o","m","m","i","t","|","d","e","a","d","b","e","e","f","|","c","a","f","e","b","a","b","e","|","1","2","3","4">>,
      \* report|0.7|0000000000.000000|smtp-in|link-disconnect|deadbeef
      <<"r","e","p","o","r","t","|","0",".","7","|","0","0","0","0","0","0","0","0","0","0",".","0","0","0","0","0","0","|","s","m","t","p","-","i","n","|","l","i","n","k","-","d","i","s","c","o","n","n","e","c","t","|","d","e","a","d","b","e","e","f">>
    >>

\* the elements of a sequence
Range(seq) == { seq[i] : i \in 1..Len(seq) }

\* every line a peer may send, numbered: the steps below name a line by its
\* number in this table
RECURSIVE Enumerate(_)
Enumerate(set) ==
    IF set = {} THEN <<>>
    ELSE LET x == CHOOSE y \in set : TRUE IN <<x>> \o Enumerate(set \ {x})
ModelLines == ConfigLines \cup DataConfigLines \cup Lines \cup DataLines
AllLines ==
    Enumerate(ModelLines)
    \o Enumerate((Range(initLines) \cup Range(messageLines)) \ ModelLines)
Numbers(lines) == { n \in 1..Len(AllLines) : AllLines[n] \in lines }
ConfigNumbers == Numbers(ConfigLines)
LineNumbers == Numbers(Lines)
DataConfigNumbers == Numbers(DataConfigLines)
DataLineNumbers == Numbers(DataLines)
PairLineNumbers == Numbers(PairLines)
MessageLineNumbers == Numbers(MessageLines)
initNumbers == Numbers(Range(initLines))
messageNumbers == Numbers(Range(messageLines))
\* the numbers of a sequence of lines, in its order
Script(lines) ==
    [i \in 1..Len(lines) |-> CHOOSE n \in 1..Len(AllLines) : AllLines[n] = lines[i]]
messageScript == Script(messageLines)

\* strings.Split(line, "|") of line number n
Atoms == [n \in 1..Len(AllLines) |-> Split(AllLines[n], Bar)]

(***************************************************************************)
(* State                                                                   *)
(***************************************************************************)
VARIABLES
    pc,         \* where Run is: "config", "register", "run", "fatal" (log.Fatal
                \* or a panic ended the process) or "eof" (Run returned)
    err,        \* which log.Fatal ended the process ("" while it runs)
    Protocol,   \* Filter.Protocol
    Subsystem,  \* Filter.Subsystem
    Sessions,   \* Filter.Sessions
    input,      \* the line the scanner read last, f.input.Text()
    inputAtoms, \* its fields, strings.Split(line, "|")
    nevents,    \* the lines the main loop has read
    limit,      \* the lines the peer sends to the main loop at most
    script,     \* the numbers of the lines the peer sends to the main loop, in
                \* their order, when it follows a script; <<>> when it sends
                \* any lines in any order
    keep,       \* the lines of the output stream that `output' records
    written,    \* the lines the last step wrote to f.output
    output,     \* the first `keep' lines written to f.output
    call        \* the last step's Classes.GetClass call: its address and score
                \* and the label returned, or <<>> if the step made none

vars == <<pc, err, Protocol, Subsystem, Sessions, input, inputAtoms, nevents, limit, script, keep, written, output, call>>

\* NewFilter
Start ==
    /\ pc = "config"
    /\ err = ""
    /\ Protocol = <<>>
    /\ Subsystem = <<>>
    /\ Sessions = EmptyMap
    /\ input = <<>>
    /\ inputAtoms = <<>>
    /\ nevents = 0
    /\ written = <<>>
    /\ output = <<>>
    /\ call = <<>>

\* Spec records the head of the output stream; SpecData, whose properties are
\* about the lines of one step (`written'), records none of it
Init == Start /\ limit = MaxEvents /\ script = <<>> /\ keep = MaxOutput
InitData == Start /\ limit = MaxDataEvents /\ script = <<>> /\ keep = 0
\* SpecMessage records all of the output stream: a step writes three lines at
\* most
InitMessage ==
    Start /\ limit = MaxMessageEvents /\ script = <<>>
          /\ keep = 12 + 3 * MaxMessageEvents
\* SpecPair, whose properties are about the lines of one step, records none
InitPair == Start /\ limit = MaxPairEvents /\ script = <<>> /\ keep = 0
\* the test: its lines in its order, and all of the output stream recorded
InitTest ==
    Start /\ limit = Len(messageLines) /\ script = messageScript
          /\ keep = Len(messageLines) + 12

\* Go's atoms[i]
At(atoms, i) == atoms[i + 1]

\* the output stream after `lines` are written to it
Emit(lines) ==
    /\ written' = lines
    /\ output' = IF Len(output \o lines) <= keep THEN output \o lines
                 ELSE Take(output \o lines, keep)

(***************************************************************************)
(* Config and Register                                                     *)
(***************************************************************************)
\* variant: a line that is neither protocol, subsystem nor ready is an error
Config_Strict(n) ==
    /\ pc = "config"
    /\ input' = AllLines[n]
    /\ inputAtoms' = Atoms[n]
    /\ LET fields == Atoms[n]
       IN  IF Len(fields) >= 3 /\ At(fields, 1) = sProtocol THEN
               /\ Protocol' = At(fields, 2)
               /\ UNCHANGED <<pc, err, Subsystem>>
           ELSE IF Len(fields) >= 3 /\ At(fields, 1) = sSubsystem THEN
               /\ Subsystem' = At(fields, 2)
               /\ UNCHANGED <<pc, err, Protocol>>
           ELSE IF Len(fields) >= 2 /\ At(fields, 1) = sReady THEN
               /\ pc' = "register"
               /\ UNCHANGED <<err, Protocol, Subsystem>>
           ELSE
               /\ pc' = "fatal" /\ err' = "unexpected config line"
               /\ UNCHANGED <<Protocol, Subsystem>>
    /\ UNCHANGED <<Sessions, nevents, limit, script, keep, written, output, call>>

\* one pass of Config's loop
Config(n) ==
    /\ pc = "config"
    /\ input' = AllLines[n]
    /\ inputAtoms' = Atoms[n]
    /\ LET fields == Atoms[n]
       IN  IF Len(fields) < 2 THEN
               /\ pc' = "fatal" /\ err' = "unexpected config line"
               /\ UNCHANGED <<Protocol, Subsystem>>
           ELSE IF At(fields, 1) = sProtocol THEN
               IF Len(fields) < 3
               THEN /\ pc' = "fatal" /\ err' = "panic: index out of range"
                    /\ UNCHANGED <<Protocol, Subsystem>>
               ELSE /\ Protocol' = At(fields, 2)
                    /\ UNCHANGED <<pc, err, Subsystem>>
           ELSE IF At(fields, 1) = sSubsystem THEN
               IF Len(fields) < 3
               THEN /\ pc' = "fatal" /\ err' = "panic: index out of range"
                    /\ UNCHANGED <<Protocol, Subsystem>>
               ELSE /\ Subsystem' = At(fields, 2)
                    /\ UNCHANGED <<pc, err, Protocol>>
           ELSE IF At(fields, 1) = sReady THEN
               /\ pc' = "register"
               /\ UNCHANGED <<err, Protocol, Subsystem>>
           ELSE UNCHANGED <<pc, err, Protocol, Subsystem>>
    /\ UNCHANGED <<Sessions, nevents, limit, script, keep, written, output, call>>

\* a Register that announces the filter events before the report events
RegisterLines_FiltersFirst(subsystem) ==
    [i \in 1..Len(filters) |-> sRegisterFilter \o subsystem \o <<Bar>> \o filters[i]]
    \o [i \in 1..Len(reports) |-> sRegisterReport \o subsystem \o <<Bar>> \o reports[i]]
    \o << sRegisterReady >>

\* the lines Register writes
RegisterLines(subsystem) ==
    [i \in 1..Len(reports) |-> sRegisterReport \o subsystem \o <<Bar>> \o reports[i]]
    \o [i \in 1..Len(filters) |-> sRegisterFilter \o subsystem \o <<Bar>> \o filters[i]]
    \o << sRegisterReady >>

Register ==
    /\ pc = "register"
    /\ pc' = "run"
    /\ Emit(RegisterLines(Subsystem))
    /\ UNCHANGED <<err, Protocol, Subsystem, Sessions, input, inputAtoms, nevents, limit, script, keep, call>>

\* the scanner reaches the end of the stream
EndOfStream ==
    /\ pc \in {"config", "run"}
    /\ script # <<>> => nevents = Len(script)
    /\ IF pc = "config"
       THEN pc' = "fatal" /\ err' = "config failure"
       ELSE pc' = "eof" /\ err' = err
    /\ input' = <<>>
    /\ inputAtoms' = <<>>
    /\ written' = <<>>
    /\ call' = <<>>
    /\ UNCHANGED <<Protocol, Subsystem, Sessions, nevents, output, limit, script, keep>>

(***************************************************************************)
(* The handlers.  Each is the function of the store (and its arguments)    *)
(* that the Go method computes: `err' names the log.Fatal that ended it    *)
(* ("" if none did), `Sessions' is the store as the method leaves it,      *)
(* `output' the lines it writes and `call' its GetClass call.              *)
(***************************************************************************)
Ok(sessions) == [err |-> "", Sessions |-> sessions, output |-> <<>>, call |-> <<>>]
Die(reason, sessions) == [err |-> reason, Sessions |-> sessions, output |-> <<>>, call |-> <<>>]

\* getSession, getSessionMessage: whether the lookup succeeds
getSession(sessions, sid) == sid \in DOMAIN sessions
getSessionMessage(sessions, sid, mid) ==
    getSession(sessions, sid) /\ mid \in DOMAIN sessions[sid].Messages

\* variant: one map of messages for all sessions, keyed by message identifier
WithMessage_Shared(sessions, sid, mid, message) ==
    [x \in DOMAIN sessions |->
        IF x = sid \/ mid \in DOMAIN sessions[x].Messages
        THEN [sessions[x] EXCEPT !.Messages = MapSet(sessions[x].Messages, mid, message)]
        ELSE sessions[x]]

\* the store with message `mid' of session `sid' set to `message'
WithMessage(sessions, sid, mid, message) ==
    [sessions EXCEPT ![sid].Messages = MapSet(sessions[sid].Messages, mid, message)]

\* the log.Fatal of a failed lookup of (sid, mid)
LookupError(sessions, sid) ==
    IF getSession(sessions, sid) THEN "unknown messageId" ELSE "unknown session"

linkConnect(sessions, sid, rdns, confirmed, src, dst) ==
    IF sid \in DOMAIN sessions THEN Die("existing session", sessions)
    ELSE Ok(MapSet(sessions, sid, NewSession(sid, rdns, confirmed = sPass, src, dst)))

\* variant: a disconnect of a session the store does not hold is no error
linkDisconnect_Lenient(sessions, sid) == Ok(MapDelete(sessions, sid))

linkDisconnect(sessions, sid) ==
    IF ~getSession(sessions, sid) THEN Die("unknown session", sessions)
    ELSE Ok(MapDelete(sessions, sid))

linkAuth(sessions, sid, result, username) ==
    IF ~getSession(sessions, sid) THEN Die("unknown session", sessions)
    ELSE IF result = sPass
    THEN Ok([sessions EXCEPT ![sid].AuthorizedUser = username])
    ELSE Ok(sessions)

\* variant: the reset keeps the record it finds
txReset_Keeps(sessions, sid, mid) ==
    IF ~getSessionMessage(sessions, sid, mid) THEN Die(LookupError(sessions, sid), sessions)
    ELSE Ok(sessions)

\* variant: the reset removes the record of the message
txReset_Removes(sessions, sid, mid) ==
    IF ~getSessionMessage(sessions, sid, mid) THEN Die(LookupError(sessions, sid), sessions)
    ELSE Ok([sessions EXCEPT ![sid].Messages = MapDelete(sessions[sid].Messages, mid)])

txReset(sessions, sid, mid) ==
    IF ~getSessionMessage(sessions, sid, mid) THEN Die(LookupError(sessions, sid), sessions)
    ELSE Ok(WithMessage(sessions, sid, mid, NewMessage(mid)))

\* variant: the begin replaces a record it finds
txBegin_Overwrites(sessions, sid, mid) ==
    IF ~getSession(sessions, sid) THEN Die("unknown session", sessions)
    ELSE Ok(WithMessage(sessions, sid, mid, NewMessage(mid)))

txBegin(sessions, sid, mid) ==
    IF ~getSession(sessions, sid) THEN Die("unknown session", sessions)
    ELSE IF mid \in DOMAIN sessions[sid].Messages THEN Die("existing message", sessions)
    ELSE Ok(WithMessage(sessions, sid, mid, NewMessage(mid)))

\* variant: the address is taken whatever the result
txMail_AnyResult(sessions, sid, mid, result, address) ==
    IF ~getSessionMessage(sessions, sid, mid) THEN Die(LookupError(sessions, sid), sessions)
    ELSE LET message == sessions[sid].Messages[mid]
             parsed == parseEmailAddress(address)
         IN  IF parsed.ok
             THEN Ok(WithMessage(sessions, sid, mid,
                        [message EXCEPT !.EnvelopeFrom = Append(@, parsed.address)]))
             ELSE Ok(sessions)

txMail(sessions, sid, mid, result, address) ==
    IF ~getSessionMessage(sessions, sid, mid) THEN Die(LookupError(sessions, sid), sessions)
    ELSE LET message == sessions[sid].Messages[mid]
             parsed == parseEmailAddress(address)
         IN  IF result = sOk /\ parsed.ok
             THEN Ok(WithMessage(sessions, sid, mid,
                        [message EXCEPT !.EnvelopeFrom = Append(@, parsed.address)]))
             ELSE Ok(sessions)

txRcpt(sessions, sid, mid, result, address) ==
    IF ~getSessionMessage(sessions, sid, mid) THEN Die(LookupError(sessions, sid), sessions)
    ELSE LET message == sessions[sid].Messages[mid]
             parsed == parseEmailAddress(address)
         IN  IF result = sOk /\ parsed.ok
             THEN Ok(WithMessage(sessions, sid, mid,
                        [message EXCEPT !.EnvelopeTo = Append(@, parsed.address)]))
             ELSE Ok(sessions)

\* variant: the message becomes the data message whatever the result
txData_AnyResult(sessions, sid, mid, result) ==
    IF ~getSessionMessage(sessions, sid, mid) THEN Die(LookupError(sessions, sid), sessions)
    ELSE Ok([WithMessage(sessions, sid, mid,
                [sessions[sid].Messages[mid] EXCEPT !.State = sData, !.InHeader = TRUE])
             EXCEPT ![sid].DataMessage = mid])

txData(sessions, sid, mid, result) ==
    IF ~getSessionMessage(sessions, sid, mid) THEN Die(LookupError(sessions, sid), sessions)
    ELSE IF result = sOk
    THEN Ok([WithMessage(sessions, sid, mid,
                [sessions[sid].Messages[mid] EXCEPT !.State = sData, !.InHeader = TRUE])
             EXCEPT ![sid].DataMessage = mid])
    ELSE Ok(sessions)

\* sessionTimeout: no case of Run's switch calls it
sessionTimeout(sessions, sid) ==
    IF ~getSession(sessions, sid) THEN Die("unknown session", sessions)
    ELSE Ok(MapDelete(sessions, sid))

\* variant: the commit removes the record of the message
txCommit_Removes(sessions, sid, mid, size) ==
    IF ~getSessionMessage(sessions, sid, mid) THEN Die(LookupError(sessions, sid), sessions)
    ELSE Ok([sessions EXCEPT ![sid].Messages = MapDelete(sessions[sid].Messages, mid)])

txCommit(sessions, sid, mid, size) ==
    IF ~getSessionMessage(sessions, sid, mid) THEN Die(LookupError(sessions, sid), sessions)
    ELSE Ok(WithMessage(sessions, sid, mid,
                [sessions[sid].Messages[mid] EXCEPT !.State = sCommit]))

txRollback(sessions, sid, mid) ==
    IF ~getSessionMessage(sessions, sid, mid) THEN Die(LookupError(sessions, sid), sessions)
    ELSE Ok(WithMessage(sessions, sid, mid,
                [sessions[sid].Messages[mid] EXCEPT !.State = sRollback]))

\* the response lines of dataLine for the lines `lines'
Response(sid, token, lines) ==
    [i \in 1..Len(lines) |-> sFilterDataline \o sid \o <<Bar>> \o token \o <<Bar>> \o lines[i]]

\* variant: the body lines are filtered as the header lines are
dataLine_FiltersBody(sessions, sid, token, line, label) ==
    IF ~getSession(sessions, sid) THEN Die("unknown session", sessions)
    ELSE IF ~getSessionMessage(sessions, sid, sessions[sid].DataMessage)
    THEN Die("unknown messageId", sessions)
    ELSE
        LET mid == sessions[sid].DataMessage
            message == sessions[sid].Messages[mid]
            entered == IF TrimSpace(line) = <<>>
                       THEN [message EXCEPT !.InHeader = FALSE] ELSE message
            filtered == filterDataLine(entered, line, label)
        IN  IF filtered.fatal
            THEN Die("spam score parse failed",
                     WithMessage(sessions, sid, mid, filtered.message))
            ELSE [err |-> "",
                  Sessions |-> WithMessage(sessions, sid, mid, filtered.message),
                  output |-> Response(sid, token, filtered.output),
                  call |-> filtered.call]

dataLine(sessions, sid, token, line, label) ==
    IF ~getSession(sessions, sid) THEN Die("unknown session", sessions)
    ELSE IF ~getSessionMessage(sessions, sid, sessions[sid].DataMessage)
    THEN Die("unknown messageId", sessions)
    ELSE
        LET mid == sessions[sid].DataMessage
            message == sessions[sid].Messages[mid]
            entered == IF TrimSpace(line) = <<>>
                       THEN [message EXCEPT !.InHeader = FALSE] ELSE message
            filtered == filterDataLine(entered, line, label)
        IN  IF ~message.InHeader
            THEN [Ok(sessions) EXCEPT !.output = Response(sid, token, <<line>>)]
            ELSE IF filtered.fatal
            THEN Die("spam score parse failed",
                     WithMessage(sessions, sid, mid, filtered.message))
            ELSE [err |-> "",
                  Sessions |-> WithMessage(sessions, sid, mid, filtered.message),
                  output |-> Response(sid, token, filtered.output),
                  call |-> filtered.call]

(***************************************************************************)
(* The main loop of Run: one action per case of its switch                 *)
(***************************************************************************)
requireArgs(atoms, count) == Len(atoms) >= count

IsReport(atoms, name) ==
    Len(atoms) >= 6 /\ At(atoms, 0) = sReport /\ At(atoms, FID_NAME) = name
IsFilter(atoms, phase) ==
    Len(atoms) >= 6 /\ At(atoms, 0) = sFilter /\ At(atoms, FID_NAME) = phase

\* the loop read line number n and its handler ended with `result'
Handle(n, result) ==
    /\ nevents < limit
    /\ script # <<>> => script[nevents + 1] = n
    /\ \E r \in {result} :
        /\ input' = AllLines[n]
        /\ inputAtoms' = Atoms[n]
        /\ nevents' = nevents + 1
        /\ pc' = IF r.err = "" THEN "run" ELSE "fatal"
        /\ err' = r.err
        /\ Sessions' = r.Sessions
        /\ Emit(r.output)
        /\ call' = r.call
    /\ UNCHANGED <<Protocol, Subsystem, limit, script, keep>>

\* fewer than six atoms, or a first atom that is neither report nor filter
RunReject(n) ==
    /\ pc = "run"
    /\ Len(Atoms[n]) < 6 \/ At(Atoms[n], 0) \notin {sReport, sFilter}
    /\ Handle(n, Die(IF Len(Atoms[n]) < 6 THEN "missing atoms" ELSE "unexpected input",
                        Sessions))

\* a report or filter line whose name no case of the switch takes
RunIgnore(n) ==
    /\ pc = "run"
    /\ LET atoms == Atoms[n]
       IN  /\ Len(atoms) >= 6
           /\ \/ At(atoms, 0) = sReport
                 /\ \A i \in 1..Len(reports) : At(atoms, FID_NAME) # reports[i]
              \/ At(atoms, 0) = sFilter
                 /\ \A i \in 1..Len(filters) : At(atoms, FID_NAME) # filters[i]
    /\ Handle(n, Ok(Sessions))

LinkConnect(n) ==
    /\ pc = "run"
    /\ IsReport(Atoms[n], sLinkConnect)
    /\ LET atoms == Atoms[n]
       IN  Handle(n,
               IF ~requireArgs(atoms, 10) THEN Die("expected args", Sessions)
               ELSE linkConnect(Sessions, At(atoms, FID_SID), At(atoms, 6), At(atoms, 7),
                                At(atoms, 8), At(atoms, 9)))

LinkDisconnect(n) ==
    /\ pc = "run"
    /\ IsReport(Atoms[n], sLinkDisconnect)
    /\ Handle(n, linkDisconnect(Sessions, At(Atoms[n], FID_SID)))

LinkAuth(n) ==
    /\ pc = "run"
    /\ IsReport(Atoms[n], sLinkAuth)
    /\ LET atoms == Atoms[n]
       IN  Handle(n,
               IF ~requireArgs(atoms, 8) THEN Die("expected args", Sessions)
               ELSE linkAuth(Sessions, At(atoms, FID_SID), At(atoms, 6), At(atoms, 7)))

TxReset(n) ==
    /\ pc = "run"
    /\ IsReport(Atoms[n], sTxReset)
    /\ LET atoms == Atoms[n]
       IN  Handle(n,
               IF ~requireArgs(atoms, 7) THEN Die("expected args", Sessions)
               ELSE txReset(Sessions, At(atoms, FID_SID), At(atoms, 6)))

TxBegin(n) ==
    /\ pc = "run"
    /\ IsReport(Atoms[n], sTxBegin)
    /\ LET atoms == Atoms[n]
       IN  Handle(n,
               IF ~requireArgs(atoms, 7) THEN Die("expected args", Sessions)
               ELSE txBegin(Sessions, At(atoms, FID_SID), At(atoms, 6)))

TxMail(n) ==
    /\ pc = "run"
    /\ IsReport(Atoms[n], sTxMail)
    /\ LET atoms == Atoms[n]
       IN  Handle(n,
               IF ~requireArgs(atoms, 9) THEN Die("expected args", Sessions)
               ELSE txMail(Sessions, At(atoms, FID_SID), At(atoms, 6), At(atoms, 7),
                           At(atoms, 8)))

TxRcpt(n) ==
    /\ pc = "run"
    /\ IsReport(Atoms[n], sTxRcpt)
    /\ LET atoms == Atoms[n]
       IN  Handle(n,
               IF ~requireArgs(atoms, 9) THEN Die("expected args", Sessions)
               ELSE txRcpt(Sessions, At(atoms, FID_SID), At(atoms, 6), At(atoms, 7),
                           At(atoms, 8)))

TxData(n) ==
    /\ pc = "run"
    /\ IsReport(Atoms[n], sTxData)
    /\ LET atoms == Atoms[n]
       IN  Handle(n,
               IF ~requireArgs(atoms, 8) THEN Die("expected args", Sessions)
               ELSE txData(Sessions, At(atoms, FID_SID), At(atoms, 6), At(atoms, 7)))

TxCommit(n) ==
    /\ pc = "run"
    /\ IsReport(Atoms[n], sTxCommit)
    /\ LET atoms == Atoms[n]
       IN  Handle(n,
               IF ~requireArgs(atoms, 8) THEN Die("expected args", Sessions)
               ELSE txCommit(Sessions, At(atoms, FID_SID), At(atoms, 6), At(atoms, 7)))

TxRollback(n) ==
    /\ pc = "run"
    /\ IsReport(Atoms[n], sTxRollback)
    /\ LET atoms == Atoms[n]
       IN  Handle(n,
               IF ~requireArgs(atoms, 7) THEN Die("expected args", Sessions)
               ELSE txRollback(Sessions, At(atoms, FID_SID), At(atoms, 6)))

\* label: what Classes.GetClass returns to this step; a step that does not
\* call it is taken once, with the empty label
DataLine(n, label) ==
    /\ pc = "run"
    /\ IsFilter(Atoms[n], sDataLine)
    /\ nevents < limit
    /\ LET atoms == Atoms[n]
       IN  \E r \in { IF ~requireArgs(atoms, 8) THEN Die("expected args", Sessions)
                      ELSE dataLine(Sessions, At(atoms, FID_SID), At(atoms, FID_TOKEN),
                                    lastAtom(AllLines[n], atoms, 7), label) } :
               /\ r.call = <<>> => label = <<>>
               /\ Handle(n, r)

(***************************************************************************)
(* Specifications                                                          *)
(***************************************************************************)
\* the numbers of the lines whose event or phase name (atom FID_NAME) is `name':
\* each step below is tried on the lines that carry its name, and checks
\* the line itself as Run's switch does
EventNames == { reports[i] : i \in 1..Len(reports) } \cup { filters[i] : i \in 1..Len(filters) }
ByName ==
    [name \in EventNames |->
        { n \in 1..Len(AllLines) : Len(Atoms[n]) >= 6 /\ At(Atoms[n], FID_NAME) = name }]

\* the whole protocol: two sessions, two messages each
Next ==
    \/ \E n \in ConfigNumbers : Config(n)
    \/ Register
    \/ EndOfStream
    \/ \E n \in LineNumbers : RunReject(n)
    \/ \E n \in LineNumbers : RunIgnore(n)
    \/ \E n \in LineNumbers \cap ByName[sLinkConnect] : LinkConnect(n)
    \/ \E n \in LineNumbers \cap ByName[sLinkDisconnect] : LinkDisconnect(n)
    \/ \E n \in LineNumbers \cap ByName[sLinkAuth] : LinkAuth(n)
    \/ \E n \in LineNumbers \cap ByName[sTxReset] : TxReset(n)
    \/ \E n \in LineNumbers \cap ByName[sTxBegin] : TxBegin(n)
    \/ \E n \in LineNumbers \cap ByName[sTxMail] : TxMail(n)
    \/ \E n \in LineNumbers \cap ByName[sTxRcpt] : TxRcpt(n)
    \/ \E n \in LineNumbers \cap ByName[sTxData] : TxData(n)
    \/ \E n \in LineNumbers \cap ByName[sTxCommit] : TxCommit(n)
    \/ \E n \in LineNumbers \cap ByName[sTxRollback] : TxRollback(n)
    \/ \E n \in LineNumbers \cap ByName[sDataLine], label \in ClassLabels : DataLine(n, label)

Spec == Init /\ [][Next]_vars

\* the data phase: one session with one message, every kind of message line
NextData ==
    \/ \E n \in DataConfigNumbers : Config(n)
    \/ Register
    \/ EndOfStream
    \/ \E n \in DataLineNumbers : RunReject(n)
    \/ \E n \in DataLineNumbers : RunIgnore(n)
    \/ \E n \in DataLineNumbers \cap ByName[sLinkConnect] : LinkConnect(n)
    \/ \E n \in DataLineNumbers \cap ByName[sLinkDisconnect] : LinkDisconnect(n)
    \/ \E n \in DataLineNumbers \cap ByName[sLinkAuth] : LinkAuth(n)
    \/ \E n \in DataLineNumbers \cap ByName[sTxReset] : TxReset(n)
    \/ \E n \in DataLineNumbers \cap ByName[sTxBegin] : TxBegin(n)
    \/ \E n \in DataLineNumbers \cap ByName[sTxMail] : TxMail(n)
    \/ \E n \in DataLineNumbers \cap ByName[sTxRcpt] : TxRcpt(n)
    \/ \E n \in DataLineNumbers \cap ByName[sTxData] : TxData(n)
    \/ \E n \in DataLineNumbers \cap ByName[sTxCommit] : TxCommit(n)
    \/ \E n \in DataLineNumbers \cap ByName[sTxRollback] : TxRollback(n)
    \/ \E n \in DataLineNumbers \cap ByName[sDataLine], label \in ClassLabels : DataLine(n, label)

SpecData == InitData /\ [][NextData]_vars

\* the life of one message: one session that stays connected, one message
\* identifier, every result ok
NextMessage ==
    \/ \E n \in DataConfigNumbers : Config(n)
    \/ Register
    \/ EndOfStream
    \/ \E n \in MessageLineNumbers \cap ByName[sLinkConnect] : LinkConnect(n)
    \/ \E n \in MessageLineNumbers \cap ByName[sLinkAuth] : LinkAuth(n)
    \/ \E n \in MessageLineNumbers \cap ByName[sTxReset] : TxReset(n)
    \/ \E n \in MessageLineNumbers \cap ByName[sTxBegin] : TxBegin(n)
    \/ \E n \in MessageLineNumbers \cap ByName[sTxMail] : TxMail(n)
    \/ \E n \in MessageLineNumbers \cap ByName[sTxRcpt] : TxRcpt(n)
    \/ \E n \in MessageLineNumbers \cap ByName[sTxData] : TxData(n)
    \/ \E n \in MessageLineNumbers \cap ByName[sTxCommit] : TxCommit(n)
    \/ \E n \in MessageLineNumbers \cap ByName[sTxRollback] : TxRollback(n)
    \/ \E n \in MessageLineNumbers \cap ByName[sDataLine], label \in ClassLabels : DataLine(n, label)

SpecMessage == InitMessage /\ [][NextMessage]_vars

\* two sessions on the one input stream, their events interleaved in any
\* order, both using the same message identifier
NextPair ==
    \/ \E n \in DataConfigNumbers : Config(n)
    \/ Register
    \/ EndOfStream
    \/ \E n \in PairLineNumbers \cap ByName[sLinkConnect] : LinkConnect(n)
    \/ \E n \in PairLineNumbers \cap ByName[sLinkDisconnect] : LinkDisconnect(n)
    \/ \E n \in PairLineNumbers \cap ByName[sTxBegin] : TxBegin(n)
    \/ \E n \in PairLineNumbers \cap ByName[sTxRcpt] : TxRcpt(n)
    \/ \E n \in PairLineNumbers \cap ByName[sTxData] : TxData(n)
    \/ \E n \in PairLineNumbers \cap ByName[sDataLine], label \in ClassLabels : DataLine(n, label)

SpecPair == InitPair /\ [][NextPair]_vars

\* the test: any handshake of its lines, then its events in their order, the
\* classifier free in what it returns; the stream ends behind the last line
NextTest ==
    \/ \E n \in initNumbers : Config(n)
    \/ Register
    \/ EndOfStream
    \/ \E n \in messageNumbers \cap ByName[sLinkConnect] : LinkConnect(n)
    \/ \E n \in messageNumbers \cap ByName[sLinkDisconnect] : LinkDisconnect(n)
    \/ \E n \in messageNumbers \cap ByName[sLinkAuth] : LinkAuth(n)
    \/ \E n \in messageNumbers \cap ByName[sTxBegin] : TxBegin(n)
    \/ \E n \in messageNumbers \cap ByName[sTxMail] : TxMail(n)
    \/ \E n \in messageNumbers \cap ByName[sTxRcpt] : TxRcpt(n)
    \/ \E n \in messageNumbers \cap ByName[sTxData] : TxData(n)
    \/ \E n \in messageNumbers \cap ByName[sTxCommit] : TxCommit(n)
    \/ \E n \in messageNumbers \cap ByName[sDataLine], label \in ClassLabels : DataLine(n, label)

SpecTest == InitTest /\ [][NextTest]_vars

(***************************************************************************)
(* Properties                                                              *)
(***************************************************************************)
\* what follows the k-th delimiter of a line
RECURSIVE AfterBars(_, _)
AfterBars(line, k) ==
    IF k = 0 THEN line ELSE AfterBars(Drop(line, IndexOf(line, Bar)), k - 1)

\* Register has run
Registered == pc \in {"run", "eof"} \/ (pc = "fatal" /\ nevents > 0)

\* the registration the peer expects, for subsystem ss
ExpectedRegistration(ss) ==
    << <<"r","e","g","i","s","t","e","r","|","r","e","p","o","r","t","|">> \o ss \o <<"|","l","i","n","k","-","c","o","n","n","e","c","t">>,
       <<"r","e","g","i","s","t","e","r","|","r","e","p","o","r","t","|">> \o ss \o <<"|","l","i","n","k","-","d","i","s","c","o","n","n","e","c","t">>,
       <<"r","e","g","i","s","t","e","r","|","r","e","p","o","r","t","|">> \o ss \o <<"|","l","i","n","k","-","a","u","t","h">>,
       <<"r","e","g","i","s","t","e","r","|","r","e","p","o","r","t","|">> \o ss \o <<"|","t","x","-","r","e","s","e","t">>,
       <<"r","e","g","i","s","t","e","r","|","r","e","p","o","r","t","|">> \o ss \o <<"|","t","x","-","b","e","g","i","n">>,
       <<"r","e","g","i","s","t","e","r","|","r","e","p","o","r","t","|">> \o ss \o <<"|","t","x","-","m","a","i","l">>,
       <<"r","e","g","i","s","t","e","r","|","r","e","p","o","r","t","|">> \o ss \o <<"|","t","x","-","r","c","p","t">>,
       <<"r","e","g","i","s","t","e","r","|","r","e","p","o","r","t","|">> \o ss \o <<"|","t","x","-","d","a","t","a">>,
       <<"r","e","g","i","s","t","e","r","|","r","e","p","o","r","t","|">> \o ss \o <<"|","t","x","-","c","o","m","m","i","t">>,
       <<"r","e","g","i","s","t","e","r","|","r","e","p","o","r","t","|">> \o ss \o <<"|","t","x","-","r","o","l","l","b","a","c","k">>,
       <<"r","e","g","i","s","t","e","r","|","f","i","l","t","e","r","|">> \o ss \o <<"|","d","a","t","a","-","l","i","n","e">>,
       <<"r","e","g","i","s","t","e","r","|","r","e","a","d","y">> >>

\* C1: once the handshake has ended with the ready marker, the output stream
\* begins with the ten register|report lines in the fixed order, then
\* register|filter|<subsystem>|data-line, then register|ready, for the
\* subsystem the handshake set (or left empty); every line behind them is a
\* filter-dataline line, so the registration is written once and before any
\* filter-dataline output.  Before that nothing is written.
C1_RegistrationFirstAndOnce ==
    /\ ~Registered => output = <<>> /\ written = <<>>
    /\ Registered =>
        /\ Len(output) >= 12
        /\ SubSeq(output, 1, 12) = ExpectedRegistration(Subsystem)
        /\ \A i \in 13..Len(output) : HasPrefix(output[i], <<"f","i","l","t","e","r","-","d","a","t","a","l","i","n","e","|">>)
        /\ nevents > 0 =>
             \A i \in 1..Len(written) : HasPrefix(written[i], <<"f","i","l","t","e","r","-","d","a","t","a","l","i","n","e","|">>)

\* C1 witness: a handshake that named the subsystem smtp-out was followed by
\* the registration and then by a filter-dataline line
C1_Witness ==
    /\ pc = "run"
    /\ Subsystem = <<"s","m","t","p","-","o","u","t">>
    /\ Protocol = <<"0",".","7">>
    /\ Len(output) = 13
    /\ output[1] = <<"r","e","g","i","s","t","e","r","|","r","e","p","o","r","t","|","s","m","t","p","-","o","u","t","|","l","i","n","k","-","c","o","n","n","e","c","t">>
    /\ output[13] = <<"f","i","l","t","e","r","-","d","a","t","a","l","i","n","e","|","s","1","|","k","1","|","a","|","b","|","|","c">>


\* what the properties read off a step of the main loop.  `a' stands for the
\* fields of the line the step read: a[1] is the kind,
\* a[5] the event or phase name, a[6] the session, a[7] the message or token.
Reads == nevents' = nevents + 1
IsReportLine(a) == Len(a) >= 6 /\ a[1] = <<"r","e","p","o","r","t">>
IsDataLine(a) == Len(a) >= 8 /\ a[1] = <<"f","i","l","t","e","r">> /\ a[5] = <<"d","a","t","a","-","l","i","n","e">>
HasDataMessage(sessions, sid) ==
    /\ sid \in DOMAIN sessions
    /\ sessions[sid].DataMessage \in DOMAIN sessions[sid].Messages
TheDataMessage(sessions, sid) == sessions[sid].Messages[sessions[sid].DataMessage]
Content(line) == AfterBars(line, 7)
\* the output line for `content' in answer to the data-line event of fields a
Answer(a, content) == <<"f","i","l","t","e","r","-","d","a","t","a","l","i","n","e","|">> \o a[6] \o <<"|">> \o a[7] \o <<"|">> \o content
\* the data-line event of fields a finds the data message of its session
\* in-header
InHeaderLine(a) ==
    /\ IsDataLine(a)
    /\ HasDataMessage(Sessions, a[6])
    /\ TheDataMessage(Sessions, a[6]).InHeader
\* ... and out of the header
BodyLine(a) ==
    /\ IsDataLine(a)
    /\ HasDataMessage(Sessions, a[6])
    /\ ~TheDataMessage(Sessions, a[6]).InHeader
PriorHeader(content) == HasPrefix(content, <<"X","-","S","p","a","m",":"," ">>) \/ HasPrefix(content, <<"X","-","S","p","a","m","-","C","l","a","s","s",":"," ">>)

\* C2 as stated: every data-line event that is processed without a fatal
\* error writes at least one filter-dataline line.
C2_NeverZero ==
    [][ (Reads /\ pc' = "run" /\ IsDataLine(inputAtoms')) => Len(written') >= 1 ]_vars

\* C2: a data-line event that is processed without a fatal error writes at
\* least one filter-dataline line, except an in-header line that begins with
\* "X-Spam: " or "X-Spam-Class: ", which writes none.
C2_OneOrMoreUnlessPriorHeader ==
    [][ LET a == inputAtoms'
        IN  (Reads /\ pc' = "run" /\ IsDataLine(a)) =>
                /\ \A i \in 1..Len(written') : HasPrefix(written'[i], <<"f","i","l","t","e","r","-","d","a","t","a","l","i","n","e","|">>)
                /\ IF InHeaderLine(a) /\ PriorHeader(Content(input'))
                   THEN Len(written') = 0
                   ELSE Len(written') >= 1 ]_vars

\* C2 witness: the in-header line "X-Spam: yes" was taken and nothing was
\* written for it
C2_Witness ==
    /\ pc = "run"
    /\ written = <<>>
    /\ InHeaderLine(inputAtoms)
    /\ Content(input) = <<"X","-","S","p","a","m",":"," ","y","e","s">>

\* the report events that Run hands to a handler
HandledReports ==
    { <<"l","i","n","k","-","c","o","n","n","e","c","t">>, <<"l","i","n","k","-","d","i","s","c","o","n","n","e","c","t">>, <<"l","i","n","k","-","a","u","t","h">>, <<"t","x","-","r","e","s","e","t">>, <<"t","x","-","b","e","g","i","n">>, <<"t","x","-","m","a","i","l">>, <<"t","x","-","r","c","p","t">>, <<"t","x","-","d","a","t","a">>, <<"t","x","-","c","o","m","m","i","t">>, <<"t","x","-","r","o","l","l","b","a","c","k">> }
\* the step ends the process and leaves the store and the output alone
FatalUntouched ==
    /\ pc' = "fatal"
    /\ Sessions' = Sessions
    /\ written' = <<>>
    /\ output' = output

\* C3 as stated: every report event other than link-connect whose session is
\* not in the store is fatal, changes no record and writes nothing.
C3_AnyReportFatal ==
    [][ LET a == inputAtoms'
        IN  (Reads /\ IsReportLine(a) /\ a[5] # <<"l","i","n","k","-","c","o","n","n","e","c","t">> /\ a[6] \notin DOMAIN Sessions)
                => FatalUntouched ]_vars

\* C3: a report event of one of the nine handled names other than
\* link-connect whose session is not in the store is fatal, changes no record
\* and writes nothing; a report event of any other name is not looked up and
\* is skipped, the store and the output as they were.
C3_HandledReportFatal ==
    [][ LET a == inputAtoms'
        IN  (Reads /\ IsReportLine(a) /\ a[6] \notin DOMAIN Sessions) =>
                /\ a[5] \in HandledReports \ {<<"l","i","n","k","-","c","o","n","n","e","c","t">>} => FatalUntouched
                /\ a[5] \notin HandledReports =>
                     pc' = "run" /\ Sessions' = Sessions /\ written' = <<>> /\ output' = output ]_vars

\* C3 witness: tx-rcpt for session s2 ended the process while the store held
\* session s1 only
C3_Witness ==
    /\ pc = "fatal"
    /\ written = <<>>
    /\ DOMAIN Sessions = { <<"s","1">> }
    /\ LET a == inputAtoms
       IN  IsReportLine(a) /\ Len(a) >= 9 /\ a[5] = <<"t","x","-","r","c","p","t">> /\ a[6] = <<"s","2">>

\* C4: link-connect for a session in the store, and tx-begin for a message
\* in the store under its session, are fatal and leave the store as it was;
\* and no step of link-connect changes a session that the store held, no step
\* of tx-begin a message that its session held.
C4_DuplicateCreationFatal ==
    [][ LET a == inputAtoms'
        IN  (Reads /\ IsReportLine(a)) =>
              /\ (Len(a) >= 10 /\ a[5] = <<"l","i","n","k","-","c","o","n","n","e","c","t">> /\ a[6] \in DOMAIN Sessions)
                    => pc' = "fatal" /\ Sessions' = Sessions
              /\ (Len(a) >= 7 /\ a[5] = <<"t","x","-","b","e","g","i","n">> /\ a[6] \in DOMAIN Sessions
                      /\ a[7] \in DOMAIN Sessions[a[6]].Messages)
                    => pc' = "fatal" /\ Sessions' = Sessions
              /\ a[5] = <<"l","i","n","k","-","c","o","n","n","e","c","t">>
                    => \A sid \in DOMAIN Sessions :
                         sid \in DOMAIN Sessions' /\ Sessions'[sid] = Sessions[sid]
              /\ a[5] = <<"t","x","-","b","e","g","i","n">>
                    => \A sid \in DOMAIN Sessions :
                         /\ sid \in DOMAIN Sessions'
                         /\ \A mid \in DOMAIN Sessions[sid].Messages :
                              /\ mid \in DOMAIN Sessions'[sid].Messages
                              /\ Sessions'[sid].Messages[mid] = Sessions[sid].Messages[mid] ]_vars

\* C4 witness: a second tx-begin for message m1 of session s1 ended the
\* process, and the message still holds the recipient it had taken
C4_Witness ==
    /\ pc = "fatal"
    /\ LET a == inputAtoms
       IN  IsReportLine(a) /\ Len(a) >= 7 /\ a[5] = <<"t","x","-","b","e","g","i","n">>
           /\ a[6] = <<"s","1">> /\ a[7] = <<"m","1">>
    /\ <<"s","1">> \in DOMAIN Sessions
    /\ <<"m","1">> \in DOMAIN Sessions[<<"s","1">>].Messages
    /\ Sessions[<<"s","1">>].Messages[<<"m","1">>].EnvelopeTo = << <<"v","@","e",".","o","r","g">> >>

\* C5: tx-reset for a message in the store under a session in the store is
\* taken without error and leaves that message with state init, in-header,
\* no From, To, envelope-from or envelope-to address and no score observed.
C5_ResetIsFresh ==
    [][ LET a == inputAtoms'
        IN  (Reads /\ IsReportLine(a) /\ Len(a) >= 7 /\ a[5] = <<"t","x","-","r","e","s","e","t">>
               /\ a[6] \in DOMAIN Sessions
               /\ a[7] \in DOMAIN Sessions[a[6]].Messages)
            => /\ pc' = "run"
               /\ a[6] \in DOMAIN Sessions'
               /\ a[7] \in DOMAIN Sessions'[a[6]].Messages
               /\ LET message == Sessions'[a[6]].Messages[a[7]]
                  IN  /\ message.Id = a[7]
                      /\ message.State = <<"i","n","i","t">>
                      /\ message.InHeader
                      /\ message.From = <<>> /\ message.To = <<>>
                      /\ message.EnvelopeFrom = <<>> /\ message.EnvelopeTo = <<>>
                      /\ ~message.SpamScoreSet ]_vars

\* C5 witness: tx-reset was taken for message m1 of session s1 after the
\* message had entered its data phase (the session still names it as its
\* data message) and had taken a score, and the message is in state init
C5_Witness ==
    /\ pc = "run"
    /\ nevents >= 5
    /\ LET a == inputAtoms
       IN  IsReportLine(a) /\ Len(a) >= 7 /\ a[5] = <<"t","x","-","r","e","s","e","t">>
    /\ <<"s","1">> \in DOMAIN Sessions
    /\ Sessions[<<"s","1">>].DataMessage = <<"m","1">>
    /\ <<"m","1">> \in DOMAIN Sessions[<<"s","1">>].Messages
    /\ Sessions[<<"s","1">>].Messages[<<"m","1">>].State = <<"i","n","i","t">>

\* C6: a data-line event taken while the data message of its session is out
\* of the header writes one line, the answer with the content of the event,
\* calls no classifier and leaves the store as it was, whatever the content:
\* a score, X-Spam, X-Spam-Class, To or From header, a blank line, the lone
\* dot.
C6_BodyLinePassesThrough ==
    [][ LET a == inputAtoms'
        IN  (Reads /\ BodyLine(a)) =>
                /\ pc' = "run"
                /\ written' = << Answer(a, Content(input')) >>
                /\ call' = <<>>
                /\ Sessions' = Sessions ]_vars

\* C6 witness: the line "X-Spam: yes" was taken out of the header and written
\* as it came
C6_Witness ==
    /\ pc = "run"
    /\ BodyLine(inputAtoms)
    /\ Content(input) = <<"X","-","S","p","a","m",":"," ","y","e","s">>
    /\ written = << <<"f","i","l","t","e","r","-","d","a","t","a","l","i","n","e","|","s","1","|","k","1","|">> \o <<"X","-","S","p","a","m",":"," ","y","e","s">> >>

\* C7: every line a data-line event writes begins with filter-dataline, the
\* session and the token of the event (its fields 5 and 6), and the last of
\* them ends with the line of the event from behind its seventh "|" to its
\* end, whatever that content holds.
C7_ContentAfterSeventhBar ==
    [][ LET a == inputAtoms'
        IN  (Reads /\ pc' = "run" /\ IsDataLine(a) /\ written' # <<>>) =>
                /\ \A i \in 1..Len(written') :
                     HasPrefix(written'[i], <<"f","i","l","t","e","r","-","d","a","t","a","l","i","n","e","|">> \o a[6] \o <<"|">> \o a[7] \o <<"|">>)
                /\ written'[Len(written')] =
                     <<"f","i","l","t","e","r","-","d","a","t","a","l","i","n","e","|">> \o a[6] \o <<"|">> \o a[7] \o <<"|">> \o AfterBars(input', 7) ]_vars

\* C7 witness: the event with content "a|b||c", eleven fields to Split, was
\* answered with that content
C7_Witness ==
    /\ pc = "run"
    /\ IsDataLine(inputAtoms)
    /\ Len(inputAtoms) = 11
    /\ inputAtoms[6] = <<"s","1">> /\ inputAtoms[7] = <<"k","1">>
    /\ written = << <<"f","i","l","t","e","r","-","d","a","t","a","l","i","n","e","|","s","1","|","k","1","|">> \o <<"a","|","b","|","|","c">> >>

\* a line of white space only
Blank(content) == \A i \in 1..Len(content) : content[i] \in {" ", "\t"}
\* the step takes a blank line while the data message is in-header
BoundaryStep == Reads /\ InHeaderLine(inputAtoms') /\ Blank(Content(input'))
\* the message lacks the score, a To address or an envelope-to address
Lacking(message) ==
    ~message.SpamScoreSet \/ message.To = <<>> \/ message.EnvelopeTo = <<>>

\* C8: a blank in-header line for a message without score, without To
\* address or without envelope-to address is taken without error, writes the
\* blank line alone, calls no classifier and ends the header; every line
\* that follows it out of the header is taken without error and written
\* alone.
C8_FailOpen ==
    [][ LET a == inputAtoms'
        IN  /\ (BoundaryStep /\ Lacking(TheDataMessage(Sessions, a[6]))) =>
                  /\ pc' = "run"
                  /\ written' = << Answer(a, Content(input')) >>
                  /\ call' = <<>>
                  /\ Sessions' = [Sessions EXCEPT
                        ![a[6]].Messages[Sessions[a[6]].DataMessage].InHeader = FALSE]
            /\ (Reads /\ BodyLine(a) /\ Lacking(TheDataMessage(Sessions, a[6]))) =>
                  /\ pc' = "run"
                  /\ written' = << Answer(a, Content(input')) >> ]_vars

\* C8 witness: the sixth line of the session was the blank line, the message
\* had its score and a To address and no envelope-to address, and the blank
\* line was written alone
C8_Witness ==
    /\ pc = "run"
    /\ nevents = 6
    /\ IsDataLine(inputAtoms)
    /\ Content(input) = <<>>
    /\ written = << <<"f","i","l","t","e","r","-","d","a","t","a","l","i","n","e","|","s","1","|","k","1","|">> >>
    /\ call = <<>>
    /\ HasDataMessage(Sessions, <<"s","1">>)
    /\ LET message == TheDataMessage(Sessions, <<"s","1">>)
       IN  /\ ~message.InHeader
           /\ message.SpamScoreSet
           /\ message.To = << <<"u","+","t","@","e",".","o","r","g">> >>
           /\ message.EnvelopeTo = <<>>

\* the lines of the boundary for the class `label': the X-Spam header, the
\* class header if there is a label, the blank line
Batch(label, content) ==
    << <<"X","-","S","p","a","m",":"," ">> \o (IF label = <<"s","p","a","m">> THEN <<"y","e","s">> ELSE <<"n","o">>) >>
    \o (IF label = <<>> THEN <<>> ELSE << <<"X","-","S","p","a","m","-","C","l","a","s","s",":"," ">> \o label >>)
    \o << content >>

\* C9: a blank in-header line for a message with score, To address and
\* envelope-to address calls the classifier and writes, for the label it
\* returns, "X-Spam: yes" if the label is "spam" and "X-Spam: no" if not,
\* then "X-Spam-Class: <label>" if the label is not empty, then the blank
\* line: two or three lines, the last the line of the event.
C9_BoundaryBatch ==
    [][ LET a == inputAtoms'
        IN  (BoundaryStep /\ ~Lacking(TheDataMessage(Sessions, a[6]))) =>
                /\ pc' = "run"
                /\ call' # <<>>
                /\ LET batch == Batch(call'.label, Content(input'))
                   IN  written' = [i \in 1..Len(batch) |-> Answer(a, batch[i])]
                /\ Len(written') \in {2, 3}
                /\ written'[Len(written')] = Answer(a, Content(input')) ]_vars

\* C9 witness: the classifier returned the empty label and the boundary
\* wrote "X-Spam: no" and the blank line
C9_Witness ==
    /\ pc = "run"
    /\ call # <<>>
    /\ call.label = <<>>
    /\ written = << <<"f","i","l","t","e","r","-","d","a","t","a","l","i","n","e","|","s","1","|","k","1","|">> \o <<"X","-","S","p","a","m",":"," ","n","o">>, <<"f","i","l","t","e","r","-","d","a","t","a","l","i","n","e","|","s","1","|","k","1","|">> >>

\* the address with its local part cut at the first "+"
WithoutAlias(address) ==
    LET at == IndexOf(address, "@")
        local == Take(address, at - 1)
        plus == IndexOf(local, "+")
    IN  (IF plus = 0 THEN local ELSE Take(local, plus - 1)) \o Drop(address, at - 1)

\* C10: the classifier is called at the boundary of a message with score, To
\* address and envelope-to address and nowhere else, with the first To
\* address of the message, its local part cut at the first "+", and with the
\* score of the message.
C10_ClassifiesFirstTo ==
    [][ LET a == inputAtoms'
        IN  /\ (BoundaryStep /\ ~Lacking(TheDataMessage(Sessions, a[6]))) =>
                  /\ call' # <<>>
                  /\ call'.address = WithoutAlias(TheDataMessage(Sessions, a[6]).To[1])
                  /\ call'.score = TheDataMessage(Sessions, a[6]).SpamScore
            /\ (Reads /\ call' # <<>>) =>
                  BoundaryStep /\ ~Lacking(TheDataMessage(Sessions, a[6])) ]_vars

\* C10 witness: the message had the To addresses u+t@e.org and v@e.org and
\* the envelope-to address v@e.org, and the classifier was called with
\* u@e.org and the score 1.5
C10_Witness ==
    /\ pc = "run"
    /\ call # <<>>
    /\ call.address = <<"u","@","e",".","o","r","g">>
    /\ call.score = 1500
    /\ HasDataMessage(Sessions, <<"s","1">>)
    /\ LET message == TheDataMessage(Sessions, <<"s","1">>)
       IN  /\ message.To = << <<"u","+","t","@","e",".","o","r","g">>, <<"v","@","e",".","o","r","g">> >>
           /\ message.EnvelopeTo = << <<"v","@","e",".","o","r","g">> >>

\* the classifier, if the step called it, returned a label
Labelled == call' # <<>> => call'.label # <<>>

\* C11 as stated: in the run of the test, with a label returned, every
\* data-line event writes one line, except the boundary, which writes three.
C11_OnePerLine ==
    [][ (Reads /\ IsDataLine(inputAtoms') /\ Labelled) =>
            Len(written') = (IF BoundaryStep THEN 3 ELSE 1) ]_vars

\* C11: the run of the test (twenty data-line events) meets no fatal error;
\* with a label returned, every data-line event writes its own line alone,
\* except the in-header lines "X-Spam: no" and "X-Spam-Class: original",
\* which write nothing, and the boundary, which writes the X-Spam header,
\* the X-Spam-Class header and the blank line; the "." line is written as
\* it came, and the twenty events have written twenty lines in all.
C11_TestRun ==
    [][ LET a == inputAtoms'
        IN  /\ pc' # "fatal"
            /\ (Reads /\ IsDataLine(a) /\ Labelled) =>
                 IF BoundaryStep
                 THEN /\ call' # <<>>
                      /\ written' = << Answer(a, <<"X","-","S","p","a","m",":"," ">> \o (IF call'.label = <<"s","p","a","m">> THEN <<"y","e","s">> ELSE <<"n","o">>)),
                                       Answer(a, <<"X","-","S","p","a","m","-","C","l","a","s","s",":"," ">> \o call'.label),
                                       Answer(a, <<>>) >>
                 ELSE IF InHeaderLine(a) /\ Content(input') \in { <<"X","-","S","p","a","m",":"," ","n","o">>, <<"X","-","S","p","a","m","-","C","l","a","s","s",":"," ","o","r","i","g","i","n","a","l">> }
                 THEN written' = <<>>
                 ELSE written' = << Answer(a, Content(input')) >>
            /\ (Reads /\ IsDataLine(a) /\ Content(input') = <<".">>) =>
                 written' = << <<"f","i","l","t","e","r","-","d","a","t","a","l","i","n","e","|","d","e","a","d","b","e","e","f","|","b","a","a","d","f","0","0","d","|">> \o <<".">> >>
            /\ (nevents' = Len(messageLines) /\ Len(output') >= 27
                    /\ HasPrefix(output'[27], <<"f","i","l","t","e","r","-","d","a","t","a","l","i","n","e","|","d","e","a","d","b","e","e","f","|","b","a","a","d","f","0","0","d","|">> \o <<"X","-","S","p","a","m","-","C","l","a","s","s",":"," ">>)) =>
                 /\ Len(output') = 12 + 20
                 /\ output'[Len(output')] = <<"f","i","l","t","e","r","-","d","a","t","a","l","i","n","e","|","d","e","a","d","b","e","e","f","|","b","a","a","d","f","0","0","d","|">> \o <<".">> ]_vars

\* C11 witness: the test has run to its last line with the label "spam":
\* the session is gone, and the stream holds the registration and twenty
\* lines, the three of the boundary at 26 to 28 and the "." line at the end
C11_Witness ==
    /\ pc = "run"
    /\ nevents = Len(messageLines)
    /\ Sessions = EmptyMap
    /\ Len(output) = 32
    /\ output[18] = <<"f","i","l","t","e","r","-","d","a","t","a","l","i","n","e","|","d","e","a","d","b","e","e","f","|","b","a","a","d","f","0","0","d","|">> \o <<"X","-","S","p","a","m","-","S","c","o","r","e",":"," ","1",".","1","5","5"," ","/"," ","1","0","0">>
    /\ output[26] = <<"f","i","l","t","e","r","-","d","a","t","a","l","i","n","e","|","d","e","a","d","b","e","e","f","|","b","a","a","d","f","0","0","d","|">> \o <<"X","-","S","p","a","m",":"," ","y","e","s">>
    /\ output[27] = <<"f","i","l","t","e","r","-","d","a","t","a","l","i","n","e","|","d","e","a","d","b","e","e","f","|","b","a","a","d","f","0","0","d","|">> \o <<"X","-","S","p","a","m","-","C","l","a","s","s",":"," ","s","p","a","m">>
    /\ output[28] = <<"f","i","l","t","e","r","-","d","a","t","a","l","i","n","e","|","d","e","a","d","b","e","e","f","|","b","a","a","d","f","0","0","d","|">>
    /\ output[32] = <<"f","i","l","t","e","r","-","d","a","t","a","l","i","n","e","|","d","e","a","d","b","e","e","f","|","b","a","a","d","f","0","0","d","|">> \o <<".">>

\* how many of the lines `lines', written for the event of fields a, carry a
\* content that begins with `prefix'
Carrying(lines, a, prefix) ==
    Cardinality({ i \in 1..Len(lines) : HasPrefix(lines[i], Answer(a, prefix)) })
\* what holds of the spam headers of every in-header step: a prior X-Spam or
\* X-Spam-Class header writes nothing; a step writes at most one X-Spam and
\* at most one X-Spam-Class line, and writes one at the boundary only, which
\* ends the header
NoDuplicates(a) ==
    /\ PriorHeader(Content(input')) => pc' = "run" /\ written' = <<>>
    /\ Carrying(written', a, <<"X","-","S","p","a","m",":"," ">>) <= 1
    /\ Carrying(written', a, <<"X","-","S","p","a","m","-","C","l","a","s","s",":"," ">>) <= 1
    /\ Carrying(written', a, <<"X","-","S","p","a","m",":"," ">>) + Carrying(written', a, <<"X","-","S","p","a","m","-","C","l","a","s","s",":"," ">>) > 0 =>
         /\ BoundaryStep
         /\ ~TheDataMessage(Sessions', a[6]).InHeader

\* C12 as stated: in the header, a prior X-Spam or X-Spam-Class header writes
\* nothing, the spam headers written are those of the boundary, one of each
\* at most, and every X-Spam-Score header is written once as it came.
C12_ScoreAlwaysWritten ==
    [][ LET a == inputAtoms'
        IN  (Reads /\ InHeaderLine(a)) =>
                /\ NoDuplicates(a)
                /\ HasPrefix(Content(input'), <<"X","-","S","p","a","m","-","S","c","o","r","e",":"," ">>) =>
                     written' = << Answer(a, Content(input')) >> ]_vars

\* C12: in the header, a prior X-Spam or X-Spam-Class header writes nothing,
\* the spam headers written are those of the boundary, one of each at most,
\* and an X-Spam-Score header is written once as it came and its score kept,
\* unless its numeral does not parse: then the process ends and the line
\* is not written.
C12_NoDuplicateSpamHeaders ==
    [][ LET a == inputAtoms'
        IN  (Reads /\ InHeaderLine(a)) =>
                /\ NoDuplicates(a)
                /\ HasPrefix(Content(input'), <<"X","-","S","p","a","m","-","S","c","o","r","e",":"," ">>) =>
                     IF pc' = "run"
                     THEN /\ written' = << Answer(a, Content(input')) >>
                          /\ TheDataMessage(Sessions', a[6]).SpamScoreSet
                     ELSE /\ err' = "spam score parse failed"
                          /\ written' = <<>> ]_vars

\* C12 witness: the header "X-Spam-Class: old" was taken in the header of a
\* message whose score header had been taken before, and nothing was written
C12_Witness ==
    /\ pc = "run"
    /\ written = <<>>
    /\ InHeaderLine(inputAtoms)
    /\ Content(input) = <<"X","-","S","p","a","m","-","C","l","a","s","s",":"," ","o","l","d">>
    /\ TheDataMessage(Sessions, inputAtoms[6]).SpamScoreSet

\* the X-Spam headers in the output stream
Injections == { i \in 1..Len(output) : HasPrefix(output[i], <<"f","i","l","t","e","r","-","d","a","t","a","l","i","n","e","|","s","1","|","k","1","|">> \o <<"X","-","S","p","a","m",":"," ">>) }

\* C13: over the life of one message (one session that stays connected, one
\* message identifier, no line of the message itself an X-Spam header) the
\* boundary injects its headers once at most: the output stream holds one
\* X-Spam header at most.
C13_BoundaryOnce == Cardinality(Injections) <= 1

\* the fields of a config|protocol|..., a config|subsystem|... or the
\* config|ready line
KnownConfig(a) ==
    \/ Len(a) >= 3 /\ a[1] = <<"c","o","n","f","i","g">> /\ a[2] \in { <<"p","r","o","t","o","c","o","l">>, <<"s","u","b","s","y","s","t","e","m">> }
    \/ a = << <<"c","o","n","f","i","g">>, <<"r","e","a","d","y">> >>

\* C14 as stated: in the handshake every line other than config|protocol|...,
\* config|subsystem|... and config|ready is fatal, and so is the end of the
\* stream (after which no line is read: inputAtoms is empty).
C14_OnlyKnownConfigLines ==
    [][ pc = "config" =>
            IF inputAtoms' # <<>> /\ KnownConfig(inputAtoms')
            THEN pc' # "fatal"
            ELSE pc' = "fatal" ]_vars

\* C14: in the handshake the end of the stream is fatal and a line of fewer
\* than two fields is fatal; a line whose second field is protocol or
\* subsystem sets that value from its third field (and ends the process if
\* it has none); a line whose second field is ready ends the handshake; a
\* line with any other second field, config|smtpd-version|7.7.0 for one, is
\* skipped: it is no error and sets nothing.  Nothing is written, and
\* Register is reached from a ready line only.
C14_ConfigLines ==
    [][ pc = "config" =>
          LET a == inputAtoms'
          IN  /\ written' = <<>> /\ output' = <<>>
              /\ a = <<>> => pc' = "fatal" /\ err' = "config failure"
              /\ (a # <<>> /\ Len(a) < 2) => pc' = "fatal"
              /\ (Len(a) = 2 /\ a[2] \in { <<"p","r","o","t","o","c","o","l">>, <<"s","u","b","s","y","s","t","e","m">> }) => pc' = "fatal"
              /\ (Len(a) >= 3 /\ a[2] = <<"p","r","o","t","o","c","o","l">>) =>
                   pc' = "config" /\ Protocol' = a[3] /\ Subsystem' = Subsystem
              /\ (Len(a) >= 3 /\ a[2] = <<"s","u","b","s","y","s","t","e","m">>) =>
                   pc' = "config" /\ Subsystem' = a[3] /\ Protocol' = Protocol
              /\ (Len(a) >= 2 /\ a[2] = <<"r","e","a","d","y">>) =>
                   pc' = "register" /\ Protocol' = Protocol /\ Subsystem' = Subsystem
              /\ (Len(a) >= 2 /\ a[2] \notin { <<"p","r","o","t","o","c","o","l">>, <<"s","u","b","s","y","s","t","e","m">>, <<"r","e","a","d","y">> }) =>
                   pc' = "config" /\ Protocol' = Protocol /\ Subsystem' = Subsystem
              /\ pc' = "register" => (Len(a) >= 2 /\ a[2] = <<"r","e","a","d","y">>) ]_vars

\* C14 witness: the line config|smtpd-version|7.7.0 was read behind a
\* subsystem line, and the handshake goes on
C14_Witness ==
    /\ pc = "config"
    /\ inputAtoms = << <<"c","o","n","f","i","g">>, <<"s","m","t","p","d","-","v","e","r","s","i","o","n">>, <<"7",".","7",".","0">> >>
    /\ Subsystem = <<"s","m","t","p","-","o","u","t">>

\* C15: a tx-reset, tx-mail, tx-rcpt, tx-data, tx-commit or tx-rollback that
\* names a message its session does not hold, and a data-line for a session
\* that has recorded no data message, end the process, change no record and
\* write nothing.
C15_UnknownMessageFatal ==
    [][ LET a == inputAtoms'
        IN  Reads =>
              /\ (IsReportLine(a) /\ Len(a) >= 7
                    /\ a[5] \in { <<"t","x","-","r","e","s","e","t">>, <<"t","x","-","m","a","i","l">>, <<"t","x","-","r","c","p","t">>, <<"t","x","-","d","a","t","a">>, <<"t","x","-","c","o","m","m","i","t">>, <<"t","x","-","r","o","l","l","b","a","c","k">> }
                    /\ a[6] \in DOMAIN Sessions
                    /\ a[7] \notin DOMAIN Sessions[a[6]].Messages) => FatalUntouched
              /\ (IsDataLine(a) /\ a[6] \in DOMAIN Sessions
                    /\ Sessions[a[6]].DataMessage = <<>>) => FatalUntouched ]_vars

\* the step reads a report of the event `name' with `count' fields or more
\* for a message that its session holds
MessageStep(a, name, count) ==
    /\ Reads /\ IsReportLine(a) /\ Len(a) >= count /\ a[5] = name
    /\ a[6] \in DOMAIN Sessions
    /\ a[7] \in DOMAIN Sessions[a[6]].Messages

\* C16: tx-mail and tx-rcpt for a message in the store are taken without
\* error and write nothing; with result ok and an address that parses, the
\* parsed address is appended to the envelope-from list (tx-mail) or the
\* envelope-to list (tx-rcpt) of the message and nothing else changes; with
\* any other result or address the store stays as it was.
C16_EnvelopeAppend ==
    [][ LET a == inputAtoms'
        IN  /\ MessageStep(a, <<"t","x","-","m","a","i","l">>, 9) =>
                 /\ pc' = "run" /\ written' = <<>>
                 /\ Sessions' =
                      IF a[8] = <<"o","k">> /\ parseEmailAddress(a[9]).ok
                      THEN [Sessions EXCEPT ![a[6]].Messages[a[7]].EnvelopeFrom =
                                Append(@, parseEmailAddress(a[9]).address)]
                      ELSE Sessions
            /\ MessageStep(a, <<"t","x","-","r","c","p","t">>, 9) =>
                 /\ pc' = "run" /\ written' = <<>>
                 /\ Sessions' =
                      IF a[8] = <<"o","k">> /\ parseEmailAddress(a[9]).ok
                      THEN [Sessions EXCEPT ![a[6]].Messages[a[7]].EnvelopeTo =
                                Append(@, parseEmailAddress(a[9]).address)]
                      ELSE Sessions ]_vars

\* C16 witness: tx-mail with result ok and the address <f@e.org> was taken
\* for a message that held the recipient v@e.org: the message holds the
\* sender f@e.org and the recipient as before
C16_Witness ==
    /\ pc = "run"
    /\ LET a == inputAtoms
       IN  /\ IsReportLine(a) /\ Len(a) >= 9 /\ a[5] = <<"t","x","-","m","a","i","l">>
           /\ a[8] = <<"o","k">> /\ a[9] = <<"<","f","@","e",".","o","r","g",">">>
           /\ a[6] \in DOMAIN Sessions
           /\ a[7] \in DOMAIN Sessions[a[6]].Messages
           /\ Sessions[a[6]].Messages[a[7]].EnvelopeFrom = << <<"f","@","e",".","o","r","g">> >>
           /\ Sessions[a[6]].Messages[a[7]].EnvelopeTo = << <<"v","@","e",".","o","r","g">> >>

\* C17: tx-data for a message in the store is taken without error and writes
\* nothing; with result ok the session records the message as its data
\* message and the message is in state data and in-header, nothing else
\* changed; with any other result the store stays as it was.  A data-line
\* leaves the recorded data message of its session and every other message
\* as they were.
C17_DataOnlyWhenOk ==
    [][ LET a == inputAtoms'
        IN  /\ MessageStep(a, <<"t","x","-","d","a","t","a">>, 8) =>
                 /\ pc' = "run" /\ written' = <<>>
                 /\ Sessions' =
                      IF a[8] = <<"o","k">>
                      THEN [Sessions EXCEPT ![a[6]].DataMessage = a[7],
                                            ![a[6]].Messages[a[7]].State = <<"d","a","t","a">>,
                                            ![a[6]].Messages[a[7]].InHeader = TRUE]
                      ELSE Sessions
            /\ (Reads /\ IsDataLine(a) /\ HasDataMessage(Sessions, a[6])) =>
                 /\ DOMAIN Sessions' = DOMAIN Sessions
                 /\ Sessions'[a[6]].DataMessage = Sessions[a[6]].DataMessage
                 /\ DOMAIN Sessions'[a[6]].Messages = DOMAIN Sessions[a[6]].Messages
                 /\ \A mid \in DOMAIN Sessions[a[6]].Messages \ { Sessions[a[6]].DataMessage } :
                      Sessions'[a[6]].Messages[mid] = Sessions[a[6]].Messages[mid] ]_vars

\* C17 witness: tx-data with result fail was taken for the data message of
\* its session, which had left the header: it is in state data and out of
\* the header still
C17_Witness ==
    /\ pc = "run"
    /\ LET a == inputAtoms
       IN  /\ IsReportLine(a) /\ Len(a) >= 8 /\ a[5] = <<"t","x","-","d","a","t","a">> /\ a[8] = <<"f","a","i","l">>
           /\ HasDataMessage(Sessions, a[6])
           /\ Sessions[a[6]].DataMessage = a[7]
           /\ TheDataMessage(Sessions, a[6]).State = <<"d","a","t","a">>
           /\ ~TheDataMessage(Sessions, a[6]).InHeader

\* the store without session sid
Without(sessions, sid) == [x \in DOMAIN sessions \ {sid} |-> sessions[x]]

\* C18: tx-commit and tx-rollback for a message in the store set its state
\* to commit or rollback and change nothing else; no step but a
\* link-disconnect takes a session or a message identifier out of the store;
\* link-disconnect of a session in the store, and sessionTimeout for any
\* session in the store, leave the store without that session and its
\* messages; and a link-connect for a session not in the store puts it there
\* with no message and no data message.
C18_RecordsKeptUntilDisconnect ==
    [][ LET a == inputAtoms'
        IN  /\ MessageStep(a, <<"t","x","-","c","o","m","m","i","t">>, 8) =>
                 /\ pc' = "run" /\ written' = <<>>
                 /\ Sessions' = [Sessions EXCEPT ![a[6]].Messages[a[7]].State = <<"c","o","m","m","i","t">>]
            /\ MessageStep(a, <<"t","x","-","r","o","l","l","b","a","c","k">>, 7) =>
                 /\ pc' = "run" /\ written' = <<>>
                 /\ Sessions' = [Sessions EXCEPT ![a[6]].Messages[a[7]].State = <<"r","o","l","l","b","a","c","k">>]
            /\ (Reads /\ ~(IsReportLine(a) /\ a[5] = <<"l","i","n","k","-","d","i","s","c","o","n","n","e","c","t">>)) =>
                 \A sid \in DOMAIN Sessions :
                    /\ sid \in DOMAIN Sessions'
                    /\ DOMAIN Sessions[sid].Messages \subseteq DOMAIN Sessions'[sid].Messages
            /\ (Reads /\ IsReportLine(a) /\ a[5] = <<"l","i","n","k","-","d","i","s","c","o","n","n","e","c","t">> /\ a[6] \in DOMAIN Sessions) =>
                 pc' = "run" /\ Sessions' = Without(Sessions, a[6])
            /\ \A sid \in DOMAIN Sessions :
                 /\ sessionTimeout(Sessions, sid).err = ""
                 /\ sessionTimeout(Sessions, sid).Sessions = Without(Sessions, sid)
            /\ (Reads /\ IsReportLine(a) /\ Len(a) >= 10 /\ a[5] = <<"l","i","n","k","-","c","o","n","n","e","c","t">>
                  /\ a[6] \notin DOMAIN Sessions) =>
                 /\ pc' = "run"
                 /\ a[6] \in DOMAIN Sessions'
                 /\ DOMAIN Sessions'[a[6]].Messages = {}
                 /\ Sessions'[a[6]].DataMessage = <<>> ]_vars

\* C18 witness: session s1 was disconnected while session s2 held a message:
\* the store holds s2 and its message and no s1
C18_Witness ==
    /\ pc = "run"
    /\ LET a == inputAtoms
       IN  IsReportLine(a) /\ a[5] = <<"l","i","n","k","-","d","i","s","c","o","n","n","e","c","t">> /\ a[6] = <<"s","1">>
    /\ DOMAIN Sessions = { <<"s","2">> }
    /\ DOMAIN Sessions[<<"s","2">>].Messages = { <<"m","1">> }

\* the transaction state of every message in the store
StatesKnown ==
    \A sid \in DOMAIN Sessions : \A mid \in DOMAIN Sessions[sid].Messages :
        Sessions[sid].Messages[mid].State \in {sInit, sData, sCommit, sRollback}

\* C19: the transaction state of every message in the store is one of init,
\* data, commit and rollback, and a message whose state becomes data in a
\* step was in state init before it, the step being a tx-data with result ok
\* for that message: a message in state commit or rollback never returns to
\* data.
C19_DataOnlyFromInit ==
    [][ /\ StatesKnown
        /\ \A sid \in DOMAIN Sessions \cap DOMAIN Sessions' :
             \A mid \in DOMAIN Sessions[sid].Messages \cap DOMAIN Sessions'[sid].Messages :
                (/\ Sessions'[sid].Messages[mid].State = sData
                 /\ Sessions[sid].Messages[mid].State # sData) =>
                   /\ Sessions[sid].Messages[mid].State = sInit
                   /\ LET a == inputAtoms'
                      IN  /\ MessageStep(a, <<"t","x","-","d","a","t","a">>, 8)
                          /\ a[6] = sid /\ a[7] = mid /\ a[8] = sOk ]_vars

\* the store that holds session sid alone
Only(sessions, sid) == [x \in {sid} |-> sessions[x]]

\* C20: a step that reads an event naming session A leaves every other
\* session of the store in it, its record and all its messages unchanged,
\* and writes lines addressed to A only; and what a data-line event for a
\* session B of the store does (the lines written, the classifier call, the
\* error, B's record after the step) is what dataLine does on the store that
\* holds B alone: it is the same whatever other sessions hold, the same
\* message identifier included.
C20_SessionIsolation ==
    [][ LET a == inputAtoms'
        IN  /\ (Reads /\ Len(a) >= 6) =>
                 /\ \A sid \in DOMAIN Sessions \ {a[6]} :
                       sid \in DOMAIN Sessions' /\ Sessions'[sid] = Sessions[sid]
                 /\ \A i \in 1..Len(written') : written'[i] = Answer(a, AfterBars(written'[i], 3))
            /\ (Reads /\ IsDataLine(a) /\ a[6] \in DOMAIN Sessions) =>
                 LET label == IF call' = <<>> THEN <<>> ELSE call'.label
                     alone == dataLine(Only(Sessions, a[6]), a[6], a[7], Content(input'), label)
                 IN  /\ written' = alone.output
                     /\ call' = alone.call
                     /\ err' = alone.err
                     /\ a[6] \in DOMAIN Sessions'
                     /\ Sessions'[a[6]] = alone.Sessions[a[6]] ]_vars

\* C20 witness: the boundary of message m1 of session s2 wrote its three
\* lines while session s1 held a message m1 of its own, still in state init
C20_Witness ==
    /\ pc = "run"
    /\ LET a == inputAtoms
       IN  IsDataLine(a) /\ a[6] = <<"s","2">>
    /\ Len(written) = 3
    /\ DOMAIN Sessions = { <<"s","1">>, <<"s","2">> }
    /\ <<"m","1">> \in DOMAIN Sessions[<<"s","1">>].Messages
    /\ Sessions[<<"s","1">>].Messages[<<"m","1">>].State = sInit
    /\ Sessions[<<"s","2">>].DataMessage = <<"m","1">>

\* every session of the store records no data message or one of its own
DataMessagePresent(sessions) ==
    \A sid \in DOMAIN sessions :
        \/ sessions[sid].DataMessage = <<>>
        \/ sessions[sid].DataMessage \in DOMAIN sessions[sid].Messages

\* C21: before and after every step, the data message a session of the store
\* records is empty or the identifier of a message of that session; a
\* tx-data with result ok for a message of the store makes that message the
\* session's data message; and a data-line event for a session that records
\* a data message is never fatal for an unknown message or session, whatever
\* tx-reset, tx-commit, tx-rollback or failed tx-data came in between.
C21_DataMessagePresent ==
    [][ LET a == inputAtoms'
        IN  /\ DataMessagePresent(Sessions)
            /\ DataMessagePresent(Sessions')
            /\ (MessageStep(a, <<"t","x","-","d","a","t","a">>, 8) /\ a[8] = sOk) =>
                 /\ pc' = "run"
                 /\ Sessions'[a[6]].DataMessage = a[7]
                 /\ a[7] \in DOMAIN Sessions'[a[6]].Messages
            /\ (Reads /\ IsDataLine(a) /\ a[6] \in DOMAIN Sessions
                  /\ Sessions[a[6]].DataMessage # <<>>) =>
                 /\ err' \notin {"unknown messageId", "unknown session"}
                 /\ (pc' = "run" => Len(written') >= 1 \/ InHeaderLine(a)) ]_vars

\* C21 witness: a data-line was answered for a session whose data message
\* is back in state init: a tx-reset followed its tx-data with result ok
C21_Witness ==
    /\ pc = "run"
    /\ IsDataLine(inputAtoms)
    /\ inputAtoms[6] \in DOMAIN Sessions
    /\ Sessions[inputAtoms[6]].DataMessage = <<"m","1">>
    /\ Sessions[inputAtoms[6]].Messages[<<"m","1">>].State = sInit
    /\ Len(written) = 1

=============================================================================
